---- MODULE Spec2Model ----
(***************************************************************************)
(* Model of the BlockDrive recovery SDK (recovery-sdk/blockdrive):         *)
(* crypto.py, recovery.py, storage.py, wallet.py.                          *)
(*                                                                         *)
(* Values are symbolic.  A byte is a tagged tuple:                         *)
(*   <<"p", n>>             a plain byte of value n                        *)
(*   <<"c", K, N, i, p>>    byte i of the AES-GCM ciphertext of p under    *)
(*                          key K and nonce N                              *)
(*   <<"t", K, N, body, j>> byte j of the GCM tag of body under K and N    *)
(*   <<"g", K, N, i, b>>    what decrypting a foreign byte b gives         *)
(*   <<"json", v>>          the JSON text of the value v                   *)
(*   <<"x", str, i>>        byte i of the base64 decoding of a non-base64  *)
(*                          string                                         *)
(* A string is <<"hex", bytes, case>> (the hex digest of bytes),           *)
(* <<"b64", bytes, "">> (the base64 encoding of bytes) or                  *)
(* <<"lit", text, "">>.  A JSON value is <<"null">>, <<"str", s>>,         *)
(* <<"num", n>>, <<"list", seq>>, <<"obj", name>> or <<"dict", pairs>>,   *)
(* pairs a sequence of <<key, value>> in insertion order, keys unique.     *)
(* SHA-256 is collision free and AES-GCM is an ideal authenticated cipher. *)
(***************************************************************************)
EXTENDS Integers, Sequences, FiniteSets, TLC

\* ------------------------------------------------------------------ layout
CRITICAL_BYTES_LENGTH == 16
FILE_IV_LENGTH == 12
GCM_TAG_LENGTH == 16

\* ------------------------------------------------------------------ bounds
MaxPlainLen == 1
MaxExtra == 1

Min(a, b) == IF a < b THEN a ELSE b

\* ------------------------------------------------------------------ Python values
None == <<"null">>
JStr(s) == <<"str", s>>
JNum(n) == <<"num", n>>
JList(l) == <<"list", l>>
Lit(text) == <<"lit", text, "">>
IsStr(v) == Len(v) = 2 /\ v[1] = "str"

\* s[a:b] on a byte string (0-based, end clamped to the length)
PySlice(s, a, b) == SubSeq(s, a + 1, Min(b, Len(s)))

\* dict operations
HasKey(d, k) == \E i \in 1..Len(d) : d[i][1] = k
Lookup(d, k) == d[CHOOSE i \in 1..Len(d) : d[i][1] = k][2]
DictGet(d, k, default) == IF HasKey(d, k) THEN Lookup(d, k) ELSE default

\* outcome of a call: a returned value or a raised exception, with the
\* primitive operations performed on the way, in order
Ok(v, st) == [exc |-> "", msg |-> "", val |-> v, steps |-> st]
Raise(e, m, st) == [exc |-> e, msg |-> m, val |-> <<>>, steps |-> st]

\* ------------------------------------------------------------------ primitives
\* hashlib.sha256(data).hexdigest(): lowercase hex
Sha256Hex(data) == <<"hex", data, "lower">>
\* str.upper() / str.lower() of a string
StrUpper(s) == IF s[1] = "hex" THEN <<"hex", s[2], "upper">> ELSE s
StrLower(s) == IF s[1] = "hex" THEN <<"hex", s[2], "lower">> ELSE s

\* base64.b64encode(data).decode()
B64Encode(data) == <<"b64", data, "">>
\* base64.b64decode(v): TypeError for a non-string, binascii.Error (a
\* ValueError) for a string that is not base64; a hex digest of 64
\* characters is valid base64 and decodes to 48 bytes
B64Decode(v) ==
    IF ~IsStr(v) THEN Raise("TypeError", "argument should be a bytes-like object or ASCII string", <<>>)
    ELSE IF v[2][1] = "b64" THEN Ok(v[2][2], <<>>)
    ELSE IF v[2][1] = "hex" THEN Ok([i \in 1..48 |-> <<"x", v[2], i>>], <<>>)
    ELSE Raise("binascii.Error", "Incorrect padding", <<>>)

\* AESGCM(K).encrypt(N, P, None): ciphertext body then the 16-byte tag
GcmTag(K, N, body) == [j \in 1..GCM_TAG_LENGTH |-> <<"t", K, N, body, j>>]
GcmEncrypt(K, N, P) ==
    LET body == [i \in 1..Len(P) |-> <<"c", K, N, i, P[i]>>]
    IN  body \o GcmTag(K, N, body)

GcmDecByte(K, N, i, b) ==
    IF Len(b) = 5 /\ b[1] = "c" /\ b[2] = K /\ b[3] = N /\ b[4] = i
    THEN b[5] ELSE <<"g", K, N, i, b>>

\* AESGCM(K).decrypt(N, C, None): ValueError for a nonce outside 8..128
\* bytes, InvalidTag for data shorter than the tag or a tag that does not
\* authenticate the body under (K, N)
GcmDecrypt(K, N, C) ==
    IF Len(N) < 8 \/ Len(N) > 128
    THEN Raise("ValueError", "Nonce must be between 8 and 128 bytes", <<>>)
    ELSE IF Len(C) < GCM_TAG_LENGTH THEN Raise("InvalidTag", "", <<>>)
    ELSE LET body == SubSeq(C, 1, Len(C) - GCM_TAG_LENGTH)
             tag == SubSeq(C, Len(C) - GCM_TAG_LENGTH + 1, Len(C))
         IN  IF tag = GcmTag(K, N, body)
             THEN Ok([i \in 1..Len(body) |-> GcmDecByte(K, N, i, body[i])], <<>>)
             ELSE Raise("InvalidTag", "", <<>>)

\* ------------------------------------------------------------------ crypto.py
IsDict(p) == Len(p) = 2 /\ p[1] = "dict"
JDict(pairs) == <<"dict", pairs>>
EmptyStr == Lit("")

MsgIntegrity == "Proof integrity verification failed"
MsgDecryptProof == "Failed to decrypt proof - wrong key or corrupted data"
MsgTooShort == "Decrypted payload too short"
MsgCommitmentMismatch == "Commitment mismatch - extracted bytes do not match"
MsgCommitmentFailed == "Commitment verification failed - data may be tampered"
MsgContentHash == "Content hash verification failed"

\* the first of keys that the dict lacks, "" when it has them all
RECURSIVE FirstMissing(_, _)
FirstMissing(d, keys) ==
    IF keys = <<>> THEN ""
    ELSE IF ~HasKey(d, Head(keys)) THEN Head(keys)
    ELSE FirstMissing(d, Tail(keys))

\* json.dumps(obj, separators=(",", ":")).encode("utf-8"): the text that
\* encodes the value, a dict's members in insertion order
JsonDumps(v) == << <<"json", v>> >>

\* the serialized dict leaving publicSignals out for version 2
HashContent_NoSignals(d) ==
    IF DictGet(d, "version", JNum(1)) = JNum(2)
    THEN << <<"commitment", Lookup(d, "commitment")>>,
            <<"groth16Proof", DictGet(d, "groth16Proof", None)>>,
            <<"encryptedCriticalBytes", Lookup(d, "encryptedCriticalBytes")>>,
            <<"proofTimestamp", Lookup(d, "proofTimestamp")>> >>
    ELSE << <<"commitment", Lookup(d, "commitment")>>,
            <<"encryptedCriticalBytes", Lookup(d, "encryptedCriticalBytes")>>,
            <<"proofTimestamp", Lookup(d, "proofTimestamp")>> >>

\* the serialized dict taking the covered members in the record's own order
HashContent_RecordOrder(d) ==
    LET Covered(pair) ==
            pair[1] \in (IF DictGet(d, "version", JNum(1)) = JNum(2)
                         THEN {"commitment", "groth16Proof", "publicSignals",
                               "encryptedCriticalBytes", "proofTimestamp"}
                         ELSE {"commitment", "encryptedCriticalBytes", "proofTimestamp"})
    IN  SelectSeq(d, Covered)

\* the serialized dict giving an absent publicSignals the value None, as
\* proof.get("publicSignals") would
HashContent_SignalsNone(d) ==
    IF DictGet(d, "version", JNum(1)) = JNum(2)
    THEN << <<"commitment", Lookup(d, "commitment")>>,
            <<"groth16Proof", DictGet(d, "groth16Proof", None)>>,
            <<"publicSignals", DictGet(d, "publicSignals", None)>>,
            <<"encryptedCriticalBytes", Lookup(d, "encryptedCriticalBytes")>>,
            <<"proofTimestamp", Lookup(d, "proofTimestamp")>> >>
    ELSE << <<"commitment", Lookup(d, "commitment")>>,
            <<"encryptedCriticalBytes", Lookup(d, "encryptedCriticalBytes")>>,
            <<"proofTimestamp", Lookup(d, "proofTimestamp")>> >>

\* the dict _compute_proof_hash serializes
HashContent(d) ==
    IF DictGet(d, "version", JNum(1)) = JNum(2)
    THEN << <<"commitment", Lookup(d, "commitment")>>,
            <<"groth16Proof", DictGet(d, "groth16Proof", None)>>,
            <<"publicSignals", DictGet(d, "publicSignals", JList(<<>>))>>,
            <<"encryptedCriticalBytes", Lookup(d, "encryptedCriticalBytes")>>,
            <<"proofTimestamp", Lookup(d, "proofTimestamp")>> >>
    ELSE << <<"commitment", Lookup(d, "commitment")>>,
            <<"encryptedCriticalBytes", Lookup(d, "encryptedCriticalBytes")>>,
            <<"proofTimestamp", Lookup(d, "proofTimestamp")>> >>

\* BlockDriveCrypto._compute_proof_hash
ComputeProofHash(p) ==
    IF ~IsDict(p) THEN Raise("AttributeError", "object has no attribute 'get'", <<>>)
    ELSE LET missing == FirstMissing(p[2], <<"commitment", "encryptedCriticalBytes", "proofTimestamp">>)
         IN  IF missing # "" THEN Raise("KeyError", missing, <<>>)
             ELSE Ok(Sha256Hex(JsonDumps(JDict(HashContent(p[2])))), <<>>)

\* verify_proof_integrity without its try/except
VerifyProofIntegrity_NoTry(p) ==
    LET h == ComputeProofHash(p)
    IN  IF h.exc # "" THEN Raise(h.exc, h.msg, <<>>)
        ELSE Ok(JStr(h.val) = DictGet(p[2], "proofHash", JStr(EmptyStr)), <<>>)

\* BlockDriveCrypto.verify_proof_integrity
VerifyProofIntegrity(p) ==
    LET h == ComputeProofHash(p)
    IN  IF h.exc # "" THEN Ok(FALSE, <<>>)
        ELSE Ok(JStr(h.val) = DictGet(p[2], "proofHash", JStr(EmptyStr)), <<>>)

\* the split taking everything after the critical bytes as the nonce
SplitAndVerify_IvToEnd(d, payload, st) ==
    IF Len(payload) < CRITICAL_BYTES_LENGTH + FILE_IV_LENGTH
    THEN Raise("ValueError", MsgTooShort, st \o <<"length_check">>)
    ELSE LET critical_bytes == PySlice(payload, 0, CRITICAL_BYTES_LENGTH)
             file_iv == PySlice(payload, CRITICAL_BYTES_LENGTH, Len(payload))
             st4 == st \o <<"length_check", "commitment_check">>
         IN  IF JStr(Sha256Hex(critical_bytes)) # Lookup(d, "commitment")
             THEN Raise("ValueError", MsgCommitmentMismatch, st4)
             ELSE Ok(<<critical_bytes, file_iv>>, st4)

\* the commitment compared before the length of the payload is looked at
SplitAndVerify_CommitmentFirst(d, payload, st) ==
    LET critical_bytes == PySlice(payload, 0, CRITICAL_BYTES_LENGTH)
        file_iv == PySlice(payload, CRITICAL_BYTES_LENGTH, CRITICAL_BYTES_LENGTH + FILE_IV_LENGTH)
        st4 == st \o <<"commitment_check", "length_check">>
    IN  IF JStr(Sha256Hex(critical_bytes)) # Lookup(d, "commitment")
        THEN Raise("ValueError", MsgCommitmentMismatch, st \o <<"commitment_check">>)
        ELSE IF Len(payload) < CRITICAL_BYTES_LENGTH + FILE_IV_LENGTH
        THEN Raise("ValueError", MsgTooShort, st4)
        ELSE Ok(<<critical_bytes, file_iv>>, st4)

\* steps 3 and 4 of verify_and_decrypt_proof, the payload decrypted
SplitAndVerify(d, payload, st) ==
    IF Len(payload) < CRITICAL_BYTES_LENGTH + FILE_IV_LENGTH
    THEN Raise("ValueError", MsgTooShort, st \o <<"length_check">>)
    ELSE LET critical_bytes == PySlice(payload, 0, CRITICAL_BYTES_LENGTH)
             file_iv == PySlice(payload, CRITICAL_BYTES_LENGTH, CRITICAL_BYTES_LENGTH + FILE_IV_LENGTH)
             st4 == st \o <<"length_check", "commitment_check">>
         IN  IF JStr(Sha256Hex(critical_bytes)) # Lookup(d, "commitment")
             THEN Raise("ValueError", MsgCommitmentMismatch, st4)
             ELSE Ok(<<critical_bytes, file_iv>>, st4)

\* the payload decryption without the try/except around AESGCM.decrypt
DecryptPayload_NoWrap(key, d, st) ==
    LET ed == B64Decode(Lookup(d, "encryptedCriticalBytes"))
        st1 == st \o <<"b64decode_encryptedCriticalBytes">>
    IN  IF ed.exc # "" THEN Raise(ed.exc, ed.msg, st1)
        ELSE IF ~HasKey(d, "encryptionIv") THEN Raise("KeyError", "encryptionIv", st1)
        ELSE LET iv == B64Decode(Lookup(d, "encryptionIv"))
                 st2 == st1 \o <<"b64decode_encryptionIv">>
             IN  IF iv.exc # "" THEN Raise(iv.exc, iv.msg, st2)
                 ELSE LET dec == GcmDecrypt(key, iv.val, ed.val)
                          st3 == st2 \o <<"aesgcm_decrypt_proof">>
                      IN  IF dec.exc # "" THEN Raise(dec.exc, dec.msg, st3)
                          ELSE SplitAndVerify(d, dec.val, st3)

\* step 2 of verify_and_decrypt_proof, the proof hash verified
DecryptPayload(key, d, st) ==
    LET ed == B64Decode(Lookup(d, "encryptedCriticalBytes"))
        st1 == st \o <<"b64decode_encryptedCriticalBytes">>
    IN  IF ed.exc # "" THEN Raise(ed.exc, ed.msg, st1)
        ELSE IF ~HasKey(d, "encryptionIv") THEN Raise("KeyError", "encryptionIv", st1)
        ELSE LET iv == B64Decode(Lookup(d, "encryptionIv"))
                 st2 == st1 \o <<"b64decode_encryptionIv">>
             IN  IF iv.exc # "" THEN Raise(iv.exc, iv.msg, st2)
                 ELSE LET dec == GcmDecrypt(key, iv.val, ed.val)
                          st3 == st2 \o <<"aesgcm_decrypt_proof">>
                      IN  IF dec.exc # "" THEN Raise("ValueError", MsgDecryptProof, st3)
                          ELSE SplitAndVerify(d, dec.val, st3)

\* verify_and_decrypt_proof decrypting the payload before it compares the
\* proof hash
VerifyAndDecryptProof_DecryptFirst(key, p) ==
    LET h == ComputeProofHash(p)
        st == <<"compute_proof_hash">>
    IN  IF h.exc # "" THEN Raise(h.exc, h.msg, IF IsDict(p) THEN st ELSE <<>>)
        ELSE IF ~HasKey(p[2], "proofHash") THEN Raise("KeyError", "proofHash", st)
        ELSE LET r == DecryptPayload(key, p[2], st)
             IN  IF JStr(h.val) # Lookup(p[2], "proofHash")
                 THEN Raise("ValueError", MsgIntegrity, r.steps \o <<"proof_hash_check">>)
                 ELSE r

\* BlockDriveCrypto.verify_and_decrypt_proof, self._aesgcm = AESGCM(key)
VerifyAndDecryptProof(key, p) ==
    LET h == ComputeProofHash(p)
        st == <<"compute_proof_hash">>
    IN  IF h.exc # "" THEN Raise(h.exc, h.msg, IF IsDict(p) THEN st ELSE <<>>)
        ELSE IF ~HasKey(p[2], "proofHash") THEN Raise("KeyError", "proofHash", st)
        ELSE IF JStr(h.val) # Lookup(p[2], "proofHash")
             THEN Raise("ValueError", MsgIntegrity, st \o <<"proof_hash_check">>)
        ELSE DecryptPayload(key, p[2], st \o <<"proof_hash_check">>)

\* `if expected_hash:` - None and the empty string are falsy
Truthy(v) == IsStr(v) /\ v[2] # EmptyStr

\* decrypt_file putting the remainder before the critical bytes
DecryptFile_RemainderFirst(key, encrypted_content, critical_bytes, file_iv, commitment, expected_hash) ==
    IF JStr(Sha256Hex(critical_bytes)) # commitment
    THEN Raise("ValueError", MsgCommitmentFailed, <<"commitment_check">>)
    ELSE LET full_encrypted == encrypted_content \o critical_bytes
             dec == GcmDecrypt(key, file_iv, full_encrypted)
             st == <<"commitment_check", "reconstruct", "aesgcm_decrypt_file">>
         IN  IF dec.exc # "" THEN Raise(dec.exc, dec.msg, st)
             ELSE IF Truthy(expected_hash)
                  THEN IF JStr(Sha256Hex(dec.val)) # expected_hash
                       THEN Raise("ValueError", MsgContentHash, st \o <<"content_hash_check">>)
                       ELSE Ok(dec.val, st \o <<"content_hash_check">>)
                  ELSE Ok(dec.val, st)

\* decrypt_file decrypting before it checks the commitment
DecryptFile_DecryptFirst(key, encrypted_content, critical_bytes, file_iv, commitment, expected_hash) ==
    LET full_encrypted == critical_bytes \o encrypted_content
        dec == GcmDecrypt(key, file_iv, full_encrypted)
        st == <<"reconstruct", "aesgcm_decrypt_file">>
    IN  IF dec.exc # "" THEN Raise(dec.exc, dec.msg, st)
        ELSE IF JStr(Sha256Hex(critical_bytes)) # commitment
             THEN Raise("ValueError", MsgCommitmentFailed, st \o <<"commitment_check">>)
        ELSE IF Truthy(expected_hash) /\ JStr(Sha256Hex(dec.val)) # expected_hash
             THEN Raise("ValueError", MsgContentHash, st \o <<"commitment_check", "content_hash_check">>)
        ELSE Ok(dec.val, st \o <<"commitment_check">>)

\* decrypt_file ignoring expected_hash
DecryptFile_NoHashCheck(key, encrypted_content, critical_bytes, file_iv, commitment, expected_hash) ==
    IF JStr(Sha256Hex(critical_bytes)) # commitment
    THEN Raise("ValueError", MsgCommitmentFailed, <<"commitment_check">>)
    ELSE LET full_encrypted == critical_bytes \o encrypted_content
             dec == GcmDecrypt(key, file_iv, full_encrypted)
             st == <<"commitment_check", "reconstruct", "aesgcm_decrypt_file">>
         IN  IF dec.exc # "" THEN Raise(dec.exc, dec.msg, st)
             ELSE Ok(dec.val, st)

\* BlockDriveCrypto.decrypt_file, self._aesgcm = AESGCM(key)
DecryptFile(key, encrypted_content, critical_bytes, file_iv, commitment, expected_hash) ==
    IF JStr(Sha256Hex(critical_bytes)) # commitment
    THEN Raise("ValueError", MsgCommitmentFailed, <<"commitment_check">>)
    ELSE LET full_encrypted == critical_bytes \o encrypted_content
             dec == GcmDecrypt(key, file_iv, full_encrypted)
             st == <<"commitment_check", "reconstruct", "aesgcm_decrypt_file">>
         IN  IF dec.exc # "" THEN Raise(dec.exc, dec.msg, st)
             ELSE IF Truthy(expected_hash)
                  THEN IF JStr(Sha256Hex(dec.val)) # expected_hash
                       THEN Raise("ValueError", MsgContentHash, st \o <<"content_hash_check">>)
                       ELSE Ok(dec.val, st \o <<"content_hash_check">>)
                  ELSE Ok(dec.val, st)

\* ------------------------------------------------------------------ wallet.py
SecurityLevels == {1, 2, 3}
KEY_LENGTH == 32
HKDF_SALT == "BlockDrive-HKDF-Salt-v1"
\* the info strings with one string for every level
HKDF_INFO_Same == [l \in SecurityLevels |-> "blockdrive-level-1-encryption"]
HKDF_INFO ==
    [l \in SecurityLevels |->
        CASE l = 1 -> "blockdrive-level-1-encryption"
          [] l = 2 -> "blockdrive-level-2-encryption"
          [] l = 3 -> "blockdrive-level-3-encryption"]
\* HKDF(SHA256, length, salt, info).derive(ikm): a key of length bytes,
\* injective in its parameters
Hkdf(length, salt, info, ikm) == <<"hkdf", ikm, info, salt, length>>
\* len(key) of a derived key
KeyLen(key) == key[5]
\* the HKDF computation of BlockDriveWallet.derive_key, the level known
DeriveKey(signature, level) == Hkdf(KEY_LENGTH, HKDF_SALT, HKDF_INFO[level], signature)

\* derive_key computing a key for a level it does not know
WalletDeriveKey_NoCheck(signature, level) ==
    IF level \notin DOMAIN HKDF_INFO
    THEN Ok(Hkdf(KEY_LENGTH, HKDF_SALT, "", signature), <<"hkdf">>)
    ELSE Ok(DeriveKey(signature, level), <<"hkdf">>)

\* BlockDriveWallet.derive_key
WalletDeriveKey(signature, level) ==
    IF level \notin DOMAIN HKDF_INFO
    THEN Raise("KeyError", "Unknown security level", <<>>)
    ELSE Ok(DeriveKey(signature, level), <<"hkdf">>)

\* blockdrive_recovery/types.py and KeyDerivation.derive_key: the info
\* string is looked up while the arguments of HKDF(...) are evaluated
Rec_HKDF_SALT == "BlockDrive-HKDF-Salt-v1"
Rec_HKDF_INFO ==
    [l \in SecurityLevels |->
        CASE l = 1 -> "blockdrive-level-1-encryption"
          [] l = 2 -> "blockdrive-level-2-encryption"
          [] l = 3 -> "blockdrive-level-3-encryption"]
KeyDerivationDeriveKey(signature, level) ==
    IF level \notin DOMAIN Rec_HKDF_INFO
    THEN Raise("KeyError", "level", <<>>)
    ELSE Ok(Hkdf(KEY_LENGTH, Rec_HKDF_SALT, Rec_HKDF_INFO[level], signature), <<"hkdf">>)
\* no key: what the _crypto dict holds for a level it does not contain
NoKey == <<"nokey", "", 0>>

\* ------------------------------------------------------------------ the producer
\* What the encrypting platform and the stores hand to the SDK; the test
\* helpers _encrypt_file, _encrypt_payload, _build_proof_v1/_v2 build it the
\* same way.
Signatures == {"sigA", "sigB"}
CallKeys == {DeriveKey("sigA", 1), DeriveKey("sigB", 1)}
OwnerKey == DeriveKey("sigA", 1)

PlainBytes == {<<"p", 0>>, <<"p", 1>>}
LongPlainLen == 17
LongPlain == [i \in 1..LongPlainLen |-> <<"p", 0>>]
RECURSIVE SeqsUpTo(_, _)
SeqsUpTo(S, n) ==
    IF n = 0 THEN {<<>>}
    ELSE LET shorter == SeqsUpTo(S, n - 1)
         IN  shorter \cup {Append(q, b) : q \in {r \in shorter : Len(r) = n - 1}, b \in S}
Plaintexts == SeqsUpTo(PlainBytes, MaxPlainLen) \cup {LongPlain}

Nonce(n) == [i \in 1..FILE_IV_LENGTH |-> <<"p", n>>]
FileNonce == Nonce(1)
SealNonce == Nonce(2)
ZeroDigest == Lit("0000000000000000000000000000000000000000000000000000000000000000")

\* _encrypt_file: encrypt, split off the first 16 bytes, commit to them
EncryptFile(key, plaintext, file_iv) ==
    LET ciphertext == GcmEncrypt(key, file_iv, plaintext)
        critical_bytes == PySlice(ciphertext, 0, CRITICAL_BYTES_LENGTH)
    IN  [remaining |-> PySlice(ciphertext, CRITICAL_BYTES_LENGTH, Len(ciphertext)),
         critical_bytes |-> critical_bytes,
         file_iv |-> file_iv,
         commitment |-> Sha256Hex(critical_bytes)]

\* the payload sealed into the proof: critical bytes, file nonce, and for
\* "extra" MaxExtra bytes more, for "short" only the first 20 bytes
ShortPayloadLen == 20
SealedPayload(file, kind) ==
    LET exact == file.critical_bytes \o file.file_iv
    IN  IF kind = "short" THEN PySlice(exact, 0, ShortPayloadLen)
        ELSE IF kind = "extra" THEN exact \o [i \in 1..MaxExtra |-> <<"p", 7>>]
        ELSE exact

\* the tests' proofTimestamp, 1700000000000 ms, in seconds (TLC integers
\* are 32 bits wide; the value is only serialized and compared)
ProofTimestamp == 1700000000

\* dict with key k set to v (appended when new) and with key k removed
RECURSIVE DictDel(_, _)
DictDel(d, k) ==
    IF d = <<>> THEN <<>>
    ELSE IF Head(d)[1] = k THEN DictDel(Tail(d), k)
    ELSE <<Head(d)>> \o DictDel(Tail(d), k)
DictSet(d, k, v) ==
    IF HasKey(d, k) THEN [i \in 1..Len(d) |-> IF d[i][1] = k THEN <<k, v>> ELSE d[i]]
    ELSE Append(d, <<k, v>>)

\* proofHash as the producer computes it over a record
WithProofHash(d) ==
    DictSet(d, "proofHash", JStr(Sha256Hex(JsonDumps(JDict(HashContent(d))))))

\* _build_proof_v1 / _build_proof_v2 (version 0: no version key)
BuildProof(version, sealKey, file, payloadKind) ==
    LET encrypted == GcmEncrypt(sealKey, SealNonce, SealedPayload(file, payloadKind))
        head == IF version = 0 THEN <<>> ELSE << <<"version", JNum(version)>> >>
        zk == IF version = 2
              THEN << <<"groth16Proof", None>>, <<"publicSignals", JList(<<>>)>> >>
              ELSE <<>>
    IN  WithProofHash(
            head \o << <<"commitment", JStr(file.commitment)>> >> \o zk \o
            << <<"encryptedCriticalBytes", JStr(B64Encode(encrypted))>>,
               <<"encryptedIv", JStr(B64Encode(file.file_iv))>>,
               <<"encryptionIv", JStr(B64Encode(SealNonce))>>,
               <<"proofHash", JStr(EmptyStr)>>,
               <<"proofTimestamp", JNum(ProofTimestamp)>>,
               <<"verificationData", <<"obj", "verificationData">> >> >>)

\* what can be wrong with the record a store returns
Tampers == {"none", "commitment_upper", "commitment_upper_stale", "commitment_other",
            "commitment_other_stale", "commitment_null", "hash_wrong", "hash_upper",
            "no_proofHash", "no_commitment", "no_encryptedCriticalBytes",
            "no_proofTimestamp", "no_encryptionIv", "timestamp_stale",
            "ecb_not_base64", "ecb_null", "iv_not_base64", "iv_short",
            "ecb_stale", "groth16_stale", "signals_stale"}

Tamper(d, t) ==
    CASE t = "none" -> d
      [] t = "commitment_upper" ->
            WithProofHash(DictSet(d, "commitment", JStr(StrUpper(Lookup(d, "commitment")[2]))))
      [] t = "commitment_upper_stale" ->
            DictSet(d, "commitment", JStr(StrUpper(Lookup(d, "commitment")[2])))
      [] t = "commitment_other" -> WithProofHash(DictSet(d, "commitment", JStr(ZeroDigest)))
      [] t = "commitment_other_stale" -> DictSet(d, "commitment", JStr(ZeroDigest))
      [] t = "commitment_null" -> WithProofHash(DictSet(d, "commitment", None))
      [] t = "hash_wrong" -> DictSet(d, "proofHash", JStr(ZeroDigest))
      [] t = "hash_upper" -> DictSet(d, "proofHash", JStr(StrUpper(Lookup(d, "proofHash")[2])))
      [] t = "no_proofHash" -> DictDel(d, "proofHash")
      [] t = "no_commitment" -> DictDel(d, "commitment")
      [] t = "no_encryptedCriticalBytes" -> DictDel(d, "encryptedCriticalBytes")
      [] t = "no_proofTimestamp" -> DictDel(d, "proofTimestamp")
      [] t = "no_encryptionIv" -> DictDel(d, "encryptionIv")
      [] t = "timestamp_stale" -> DictSet(d, "proofTimestamp", JNum(ProofTimestamp + 1))
      [] t = "ecb_not_base64" ->
            WithProofHash(DictSet(d, "encryptedCriticalBytes", JStr(Lit("!not base64!"))))
      [] t = "ecb_null" -> WithProofHash(DictSet(d, "encryptedCriticalBytes", None))
      [] t = "iv_not_base64" -> DictSet(d, "encryptionIv", JStr(Lit("!not base64!")))
      [] t = "iv_short" -> DictSet(d, "encryptionIv", JStr(B64Encode(<<>>)))
      [] t = "ecb_stale" ->
            DictSet(d, "encryptedCriticalBytes", JStr(B64Encode(Nonce(9) \o Nonce(9) \o Nonce(9))))
      [] t = "groth16_stale" -> DictSet(d, "groth16Proof", <<"obj", "forged proof">>)
      [] t = "signals_stale" -> DictSet(d, "publicSignals", JList(<<JStr(Lit("1"))>>))

\* ------------------------------------------------------------------ storage.py
\* A text is a sequence of pieces; an Optional[str] is NoText or Text(t).
NoText == [some |-> FALSE, text |-> <<>>]
Text(t) == [some |-> TRUE, text |-> t]

\* the configured gateway list: the first NumGateways of the defaults
NumGateways == 2
DEFAULT_IPFS_GATEWAYS ==
    <<"https://ipfs.filebase.io/ipfs/", "https://cloudflare-ipfs.com/ipfs/",
      "https://ipfs.io/ipfs/", "https://gateway.pinata.cloud/ipfs/">>
Gateways == SubSeq(DEFAULT_IPFS_GATEWAYS, 1, NumGateways)

\* what one endpoint answers: an HTTP status with a body, or (status "")
\* an httpx.HTTPError whose str() is reason; a timeout's str() is empty
HttpOk(data) == [status |-> "200", data |-> data, reason |-> ""]
HttpStatus(code) == [status |-> code, data |-> <<>>, reason |-> ""]
NetError == [status |-> "", data |-> <<>>, reason |-> "network error"]
Timeout == [status |-> "", data |-> <<>>, reason |-> ""]
\* a text is the empty string
TextEmpty(t) == \A i \in 1..Len(t) : t[i] = ""

DownloadResult(success, data, provider, error, contacted) ==
    [success |-> success, data |-> data, provider |-> provider, error |-> error,
     contacted |-> contacted]

\* "; ".join(errors)
RECURSIVE JoinErrors(_)
JoinErrors(errors) ==
    IF Len(errors) = 0 THEN <<>>
    ELSE IF Len(errors) = 1 THEN errors[1]
    ELSE errors[1] \o <<"; ">> \o JoinErrors(Tail(errors))

\* the gateway loop keeping only the message of the last failure
RECURSIVE IpfsLoop_LastErrorOnly(_, _, _)
IpfsLoop_LastErrorOnly(responses, i, errors) ==
    IF i > Len(Gateways)
    THEN DownloadResult(FALSE, <<>>, "",
                        Text(IF Len(errors) > 0 THEN JoinErrors(errors)
                             ELSE <<"No IPFS gateways configured">>),
                        [j \in 1..(i - 1) |-> Gateways[j]])
    ELSE IF responses[i].status = "200"
         THEN DownloadResult(TRUE, responses[i].data, Gateways[i], NoText,
                             [j \in 1..i |-> Gateways[j]])
    ELSE IF responses[i].status # ""
         THEN IpfsLoop_LastErrorOnly(responses, i + 1,
                       << <<"HTTP ", responses[i].status, " from ", Gateways[i]>> >>)
    ELSE IpfsLoop_LastErrorOnly(responses, i + 1,
                                << <<Gateways[i], ": ", responses[i].reason>> >>)

\* the gateway loop of download_ipfs_sync from gateway i on; responses[i]
\* is what gateway i answers
RECURSIVE IpfsLoop(_, _, _)
IpfsLoop(responses, i, errors) ==
    IF i > Len(Gateways)
    THEN DownloadResult(FALSE, <<>>, "",
                        Text(IF Len(errors) > 0 THEN JoinErrors(errors)
                             ELSE <<"No IPFS gateways configured">>),
                        [j \in 1..(i - 1) |-> Gateways[j]])
    ELSE IF responses[i].status = "200"
         THEN DownloadResult(TRUE, responses[i].data, Gateways[i], NoText,
                             [j \in 1..i |-> Gateways[j]])
    ELSE IF responses[i].status # ""
         THEN IpfsLoop(responses, i + 1,
                       Append(errors, <<"HTTP ", responses[i].status, " from ", Gateways[i]>>))
    ELSE IpfsLoop(responses, i + 1, Append(errors, <<Gateways[i], ": ", responses[i].reason>>))

\* BlockDriveStorage.download_ipfs_sync (download_ipfs is the same loop)
DownloadIpfsSync(responses) == IpfsLoop(responses, 1, <<>>)

\* BlockDriveStorage.download_proof_sync (download_proof is the same)
DownloadProofSync(response) ==
    IF response.status = "200"
    THEN DownloadResult(TRUE, response.data, "r2", NoText, <<"r2">>)
    ELSE IF response.status # ""
         THEN DownloadResult(FALSE, <<>>, "r2", Text(<<"HTTP ", response.status>>), <<"r2">>)
    ELSE DownloadResult(FALSE, <<>>, "r2", Text(<<response.reason>>), <<"r2">>)

\* the async twins: BlockDriveStorage.download_ipfs and download_proof run
\* the same statements on an AsyncClient
DownloadIpfs(responses) == IpfsLoop(responses, 1, <<>>)
DownloadProof(response) ==
    IF response.status = "200"
    THEN DownloadResult(TRUE, response.data, "r2", NoText, <<"r2">>)
    ELSE IF response.status # ""
         THEN DownloadResult(FALSE, <<>>, "r2", Text(<<"HTTP ", response.status>>), <<"r2">>)
    ELSE DownloadResult(FALSE, <<>>, "r2", Text(<<response.reason>>), <<"r2">>)

\* the fallback asking the gateways first and R2 only after them
DownloadProofWithFallbackSync_IpfsFirst(r2_response, ipfs_responses) ==
    LET r2_result == DownloadProofSync(r2_response)
        ipfs_result == DownloadIpfsSync(ipfs_responses)
    IN  IF ipfs_result.success THEN ipfs_result
        ELSE IF r2_result.success
             THEN [r2_result EXCEPT !.contacted = ipfs_result.contacted \o <<"r2">>]
        ELSE [ipfs_result EXCEPT
                !.error = Text(<<"R2: ">> \o r2_result.error.text \o
                               <<"; IPFS: ">> \o ipfs_result.error.text),
                !.contacted = ipfs_result.contacted \o <<"r2">>]

\* BlockDriveStorage.download_proof_with_fallback_sync
DownloadProofWithFallbackSync(r2_response, ipfs_responses) ==
    LET r2_result == DownloadProofSync(r2_response)
        ipfs_result == DownloadIpfsSync(ipfs_responses)
    IN  IF r2_result.success THEN r2_result
        ELSE IF ~ipfs_result.success
             THEN [ipfs_result EXCEPT
                     !.error = Text(<<"R2: ">> \o r2_result.error.text \o
                                    <<"; IPFS: ">> \o ipfs_result.error.text),
                     !.contacted = <<"r2">> \o ipfs_result.contacted]
        ELSE [ipfs_result EXCEPT !.contacted = <<"r2">> \o ipfs_result.contacted]

\* BlockDriveStorage.download_proof_with_fallback (async)
DownloadProofWithFallback(r2_response, ipfs_responses) ==
    LET r2_result == DownloadProof(r2_response)
        ipfs_result == DownloadIpfs(ipfs_responses)
    IN  IF r2_result.success THEN r2_result
        ELSE IF ~ipfs_result.success
             THEN [ipfs_result EXCEPT
                     !.error = Text(<<"R2: ">> \o r2_result.error.text \o
                                    <<"; IPFS: ">> \o ipfs_result.error.text),
                     !.contacted = <<"r2">> \o ipfs_result.contacted]
        ELSE [ipfs_result EXCEPT !.contacted = <<"r2">> \o ipfs_result.contacted]

\* BlockDriveStorage.parse_proof_json: json.loads(data.decode("utf-8"))
ParseProofJson(data) ==
    IF Len(data) = 1 /\ data[1][1] = "json" THEN Ok(data[1][2], <<>>)
    ELSE Raise("JSONDecodeError", "Expecting value", <<>>)

\* ------------------------------------------------------------------ recovery.py
RecoveryResult(success, data, commitment, verified, error) ==
    [success |-> success, data |-> data, commitment |-> commitment,
     verified |-> verified, error |-> error]
\* RecoveryResult(success=False, data=b"", error=...): the defaults of the
\* dataclass for commitment and verified
FailureResult(error) == RecoveryResult(FALSE, <<>>, JStr(EmptyStr), FALSE, Text(error))

\* the exception classes an `except (ValueError, KeyError)` catches:
\* binascii.Error and json.JSONDecodeError derive from ValueError;
\* cryptography's InvalidTag, TypeError and AttributeError do not
CaughtByValueOrKeyError == {"ValueError", "KeyError", "binascii.Error", "JSONDecodeError"}
\* str(exc): a KeyError shows the repr of its key
ExcStr(out) == IF out.exc = "KeyError" THEN <<"'", out.msg, "'">>
               ELSE IF out.msg = "" THEN <<>> ELSE <<out.msg>>

\* _decrypt_with_proof returning the failure result with the downloaded
\* content left in data
DecryptWithProof_KeepsData(key, encrypted_content, proof_json, expected_hash, st) ==
    LET ex == VerifyAndDecryptProof(key, proof_json)
    IN  IF ex.exc # ""
        THEN IF ex.exc \in CaughtByValueOrKeyError
             THEN Ok(RecoveryResult(FALSE, encrypted_content, JStr(EmptyStr), FALSE, Text(ExcStr(ex))),
                     st \o ex.steps)
             ELSE Raise(ex.exc, ex.msg, st \o ex.steps)
        ELSE LET dec == DecryptFile(key, encrypted_content, ex.val[1], ex.val[2],
                                    Lookup(proof_json[2], "commitment"), expected_hash)
                 st2 == st \o ex.steps \o dec.steps
             IN  IF dec.exc # ""
                 THEN IF dec.exc \in CaughtByValueOrKeyError
                      THEN Ok(RecoveryResult(FALSE, encrypted_content, JStr(EmptyStr), FALSE,
                                             Text(ExcStr(dec))), st2)
                      ELSE Raise(dec.exc, dec.msg, st2)
                 ELSE Ok(RecoveryResult(TRUE, dec.val, Lookup(proof_json[2], "commitment"),
                                        TRUE, NoText), st2)

\* BlockDriveRecovery._decrypt_with_proof; st: the steps before it
DecryptWithProof(key, encrypted_content, proof_json, expected_hash, st) ==
    LET ex == VerifyAndDecryptProof(key, proof_json)
    IN  IF ex.exc # ""
        THEN IF ex.exc \in CaughtByValueOrKeyError
             THEN Ok(FailureResult(ExcStr(ex)), st \o ex.steps)
             ELSE Raise(ex.exc, ex.msg, st \o ex.steps)
        ELSE LET dec == DecryptFile(key, encrypted_content, ex.val[1], ex.val[2],
                                    Lookup(proof_json[2], "commitment"), expected_hash)
                 st2 == st \o ex.steps \o dec.steps
             IN  IF dec.exc # ""
                 THEN IF dec.exc \in CaughtByValueOrKeyError
                      THEN Ok(FailureResult(ExcStr(dec)), st2)
                      ELSE Raise(dec.exc, dec.msg, st2)
                 ELSE Ok(RecoveryResult(TRUE, dec.val, Lookup(proof_json[2], "commitment"),
                                        TRUE, NoText), st2)

\* recover_file requesting the proof before it looks at the outcome of the
\* content download
RecoverFile_DownloadsBoth(key, env, expected_hash) ==
    IF key = NoKey
    THEN Raise("ValueError", "No key derived for security level", <<"get_crypto">>)
    ELSE LET content_result == DownloadIpfsSync(env.content)
             proof_result == DownloadProofWithFallbackSync(env.r2, env.proof_ipfs)
             parsed == ParseProofJson(proof_result.data)
             st2 == <<"get_crypto", "download_content", "download_proof">>
             st3 == st2 \o <<"parse_proof_json">>
         IN  IF ~content_result.success
             THEN Ok(FailureResult(<<"Failed to download content: ">> \o content_result.error.text), st2)
             ELSE IF ~proof_result.success
             THEN Ok(FailureResult(<<"Failed to download proof: ">> \o proof_result.error.text), st2)
             ELSE IF parsed.exc # "" THEN Raise(parsed.exc, parsed.msg, st3)
             ELSE DecryptWithProof(key, content_result.data, parsed.val, expected_hash, st3)

\* BlockDriveRecovery.recover_file; key is self._crypto.get(security_level)
\* (NoKey when the level is not in the dict), env what the endpoints answer
RecoverFile(key, env, expected_hash) ==
    IF key = NoKey
    THEN Raise("ValueError", "No key derived for security level", <<"get_crypto">>)
    ELSE LET content_result == DownloadIpfsSync(env.content)
             proof_result == DownloadProofWithFallbackSync(env.r2, env.proof_ipfs)
             parsed == ParseProofJson(proof_result.data)
             st1 == <<"get_crypto", "download_content">>
             st2 == st1 \o <<"download_proof">>
             st3 == st2 \o <<"parse_proof_json">>
         IN  IF ~content_result.success
             THEN Ok(FailureResult(<<"Failed to download content: ">> \o content_result.error.text), st1)
             ELSE IF ~proof_result.success
             THEN Ok(FailureResult(<<"Failed to download proof: ">> \o proof_result.error.text), st2)
             ELSE IF parsed.exc # "" THEN Raise(parsed.exc, parsed.msg, st3)
             ELSE DecryptWithProof(key, content_result.data, parsed.val, expected_hash, st3)

\* ================================================== blockdrive_recovery
\* ------------------------------------------------ blockdrive_recovery/storage.py
\* IPFSClient.DEFAULT_GATEWAYS, and the list an IPFSClient is configured
\* with: the first NumGateways of them
Rec_DEFAULT_GATEWAYS ==
    <<"https://ipfs.filebase.io/ipfs/", "https://cloudflare-ipfs.com/ipfs/",
      "https://ipfs.io/ipfs/", "https://dweb.link/ipfs/",
      "https://gateway.pinata.cloud/ipfs/">>
RecGateways == SubSeq(Rec_DEFAULT_GATEWAYS, 1, NumGateways)

\* provider_gateways.get(provider.lower()): "" stands for None
Providers == {"filebase", "cloudflare", "infura", "unknown"}
ProviderGateway(provider) ==
    CASE provider = "filebase" -> "https://ipfs.filebase.io/ipfs/"
      [] provider = "pinata" -> "https://gateway.pinata.cloud/ipfs/"
      [] provider = "infura" -> "https://ipfs.infura.io/ipfs/"
      [] provider = "cloudflare" -> "https://cloudflare-ipfs.com/ipfs/"
      [] OTHER -> ""
\* every URL a content download can contact
ContentUrls == {RecGateways[i] : i \in 1..Len(RecGateways)} \cup
               {ProviderGateway(p) : p \in Providers \ {"unknown"}}

\* list.remove(x): the list without the first occurrence of x
RECURSIVE ListRemove(_, _)
ListRemove(l, x) ==
    IF l = <<>> THEN <<>>
    ELSE IF Head(l) = x THEN Tail(l)
    ELSE <<Head(l)>> \o ListRemove(Tail(l), x)

\* FilebaseClient.download_by_cid; response is what the Filebase gateway
\* answers
FilebaseDownloadByCid(response) ==
    IF response.status = "200"
    THEN DownloadResult(TRUE, response.data, "filebase", NoText, <<"filebase">>)
    ELSE IF response.status # ""
         THEN DownloadResult(FALSE, <<>>, "filebase", Text(<<"HTTP ", response.status>>),
                             <<"filebase">>)
    ELSE DownloadResult(FALSE, <<>>, "filebase", Text(<<response.reason>>), <<"filebase">>)

\* the gateway loop of IPFSClient.download from position i of gateways on;
\* answers[url] is what the gateway at url answers, last_error the message
\* of the last failure (only that one is kept)
RECURSIVE RecIpfsLoop(_, _, _, _)
RecIpfsLoop(gateways, answers, i, last_error) ==
    IF i > Len(gateways)
    THEN DownloadResult(FALSE, <<>>, "",
                        Text(IF last_error.some /\ ~TextEmpty(last_error.text)
                             THEN last_error.text ELSE <<"All gateways failed">>),
                        gateways)
    ELSE LET gateway == gateways[i]
             response == answers[gateway]
         IN  IF response.status = "200"
             THEN DownloadResult(TRUE, response.data, gateway, NoText, SubSeq(gateways, 1, i))
             ELSE IF response.status # ""
                  THEN RecIpfsLoop(gateways, answers, i + 1,
                                   Text(<<"HTTP ", response.status, " from ", gateway>>))
             ELSE RecIpfsLoop(gateways, answers, i + 1,
                              Text(<<"Request failed for ", gateway, ": ", response.reason>>))

\* IPFSClient.download(cid, preferred_gateway): the preferred gateway is
\* moved (or added) to the front
IpfsClientDownload(answers, preferred_gateway) ==
    LET gateways == IF preferred_gateway # ""
                    THEN <<preferred_gateway>> \o ListRemove(RecGateways, preferred_gateway)
                    ELSE RecGateways
    IN  RecIpfsLoop(gateways, answers, 1, NoText)

\* StorageOrchestrator.download_encrypted_content(content_cid, provider);
\* store.filebase: whether an enterprise Filebase client is configured and
\* what its gateway answers
DownloadEncryptedContent(store, provider) ==
    LET first == FilebaseDownloadByCid(store.filebase.response)
        tried == store.filebase.configured /\ provider = "filebase"
        rest == IpfsClientDownload(store.gateway, ProviderGateway(provider))
    IN  IF tried /\ first.success THEN first
        ELSE IF tried THEN [rest EXCEPT !.contacted = first.contacted \o rest.contacted]
        ELSE rest

\* ProofPackage of types.py
ProofPackage(commitment, encrypted_critical_bytes, encryption_iv, encrypted_iv, security_level, timestamp, version) ==
    [commitment |-> commitment, encrypted_critical_bytes |-> encrypted_critical_bytes,
     encryption_iv |-> encryption_iv, encrypted_iv |-> encrypted_iv,
     security_level |-> security_level, timestamp |-> timestamp, version |-> version]
NoProof == ProofPackage(None, None, None, None, None, None, None)

\* SecurityLevel(value) of the IntEnum: ValueError outside 1, 2, 3
IsSecurityLevel(v) == \E l \in SecurityLevels : v = JNum(l)

\* `key in data` for the value response.json() gave: membership in a
\* dict's keys or a list's items, TypeError for None or a number
JsonContains(data, k) ==
    IF IsDict(data) THEN HasKey(data[2], k)
    ELSE \E i \in 1..Len(data[2]) : data[2][i] = JStr(Lit(k))
JsonIterable(data) == Len(data) = 2 /\ data[1] \in {"dict", "list"}

\* the (success, proof, error) tuple of R2Client.download_proof
ProofDownload(success, proof, error) ==
    [success |-> success, proof |-> proof, error |-> error]

\* R2Client.download_proof (StorageOrchestrator.download_proof returns it
\* as it is); response is what R2 answers
R2DownloadProof(response) ==
    IF response.status = ""
    THEN ProofDownload(FALSE, NoProof, Text(<<"Request failed: ", response.reason>>))
    ELSE IF response.status # "200"
    THEN ProofDownload(FALSE, NoProof, Text(<<"HTTP ", response.status>>))
    ELSE LET parsed == ParseProofJson(response.data)
             data == parsed.val
         IN  IF parsed.exc # ""
             THEN ProofDownload(FALSE, NoProof, Text(<<"Invalid JSON in proof">>))
             ELSE IF IsStr(data)
             THEN ProofDownload(FALSE, NoProof, Text(<<"Invalid proof structure">>))
             ELSE IF ~JsonIterable(data)
             THEN ProofDownload(FALSE, NoProof,
                                Text(<<"Unexpected error: ", "argument is not iterable">>))
             ELSE IF ~JsonContains(data, "commitment") \/
                     ~JsonContains(data, "encryptedCriticalBytes")
             THEN ProofDownload(FALSE, NoProof, Text(<<"Invalid proof structure">>))
             ELSE IF ~IsDict(data)
             THEN ProofDownload(FALSE, NoProof,
                                Text(<<"Unexpected error: ", "list indices must be integers">>))
             ELSE IF ~HasKey(data[2], "encryptionIv")
             THEN ProofDownload(FALSE, NoProof,
                                Text(<<"Unexpected error: ", "'", "encryptionIv", "'">>))
             ELSE IF ~HasKey(data[2], "encryptedIv")
             THEN ProofDownload(FALSE, NoProof,
                                Text(<<"Unexpected error: ", "'", "encryptedIv", "'">>))
             ELSE IF ~IsSecurityLevel(DictGet(data[2], "securityLevel", JNum(1)))
             THEN ProofDownload(FALSE, NoProof,
                                Text(<<"Unexpected error: ", "not a valid SecurityLevel">>))
             ELSE ProofDownload(TRUE,
                      ProofPackage(Lookup(data[2], "commitment"),
                                   Lookup(data[2], "encryptedCriticalBytes"),
                                   Lookup(data[2], "encryptionIv"),
                                   Lookup(data[2], "encryptedIv"),
                                   DictGet(data[2], "securityLevel", JNum(1)),
                                   DictGet(data[2], "timestamp", JNum(0)),
                                   DictGet(data[2], "version", JStr(Lit("1.0")))),
                      NoText)

\* ------------------------------------------------ blockdrive_recovery/crypto.py
MsgKeyLength == "Key must be 32 bytes for AES-256"
\* the ValueError of a failed commitment check; its text goes on with the
\* expected and the actual digest
MsgRecCommitment == "Commitment verification failed - data may be tampered. "

\* AESDecryptor(key): ValueError unless the key has 32 bytes
AESDecryptorInit(key) ==
    IF KeyLen(key) # KEY_LENGTH THEN Raise("ValueError", MsgKeyLength, <<>>)
    ELSE Ok(key, <<>>)

\* AESDecryptor.decrypt_critical_bytes(encrypted_data, iv), key the key of
\* the decryptor; st: the steps before it
DecryptCriticalBytes(key, encrypted_data, iv, st) ==
    LET enc == B64Decode(encrypted_data)
        ivb == B64Decode(iv)
        st1 == st \o <<"b64decode_encrypted_data">>
        st2 == st1 \o <<"b64decode_iv">>
        st3 == st2 \o <<"aesgcm_decrypt_proof">>
        st4 == st3 \o <<"json_loads">>
        st5 == st4 \o <<"b64decode_bytes">>
    IN  IF enc.exc # "" THEN Raise(enc.exc, enc.msg, st1)
        ELSE IF ivb.exc # "" THEN Raise(ivb.exc, ivb.msg, st2)
        ELSE LET dec == GcmDecrypt(key, ivb.val, enc.val)
             IN  IF dec.exc # "" THEN Raise(dec.exc, dec.msg, st3)
                 ELSE LET parsed == ParseProofJson(dec.val)
                          data == parsed.val
                      IN  IF parsed.exc # "" THEN Raise(parsed.exc, parsed.msg, st4)
                          ELSE IF ~IsDict(data)
                          THEN Raise("TypeError", "indices must be integers", st4)
                          ELSE IF ~HasKey(data[2], "bytes") THEN Raise("KeyError", "bytes", st4)
                          ELSE LET bytes == B64Decode(Lookup(data[2], "bytes"))
                               IN  IF bytes.exc # "" THEN Raise(bytes.exc, bytes.msg, st5)
                                   ELSE Ok(bytes.val, st5)

\* decrypt_file putting no commitment check before the decryption
AESDecryptFile_NoCommitment(key, encrypted_content, critical_bytes, iv, commitment, expected_hash, st) ==
    LET dec == GcmDecrypt(key, iv, critical_bytes \o encrypted_content)
        st2 == st \o <<"reconstruct", "aesgcm_decrypt_file">>
    IN  IF dec.exc # "" THEN Raise(dec.exc, dec.msg, st2)
        ELSE Ok([data |-> dec.val,
                 verified |-> IF Truthy(expected_hash)
                              THEN JStr(Sha256Hex(dec.val)) = expected_hash ELSE TRUE,
                 commitment_valid |-> JStr(Sha256Hex(critical_bytes)) = commitment], st2)

\* AESDecryptor.decrypt_file: the (decrypted, verified, commitment_valid)
\* tuple; a hash that differs from expected_hash only clears verified
AESDecryptFile(key, encrypted_content, critical_bytes, iv, commitment, expected_hash, st) ==
    LET commitment_valid == JStr(Sha256Hex(critical_bytes)) = commitment
        st1 == st \o <<"commitment_check">>
        st2 == st1 \o <<"reconstruct", "aesgcm_decrypt_file">>
    IN  IF ~commitment_valid THEN Raise("ValueError", MsgRecCommitment, st1)
        ELSE LET dec == GcmDecrypt(key, iv, critical_bytes \o encrypted_content)
             IN  IF dec.exc # "" THEN Raise(dec.exc, dec.msg, st2)
                 ELSE Ok([data |-> dec.val,
                          verified |-> IF Truthy(expected_hash)
                                       THEN JStr(Sha256Hex(dec.val)) = expected_hash
                                       ELSE TRUE,
                          commitment_valid |-> commitment_valid], st2)

\* ------------------------------------------------ blockdrive_recovery/recovery.py
\* RecoveryResult of types.py (the two timings are left out); file_name,
\* file_type and file_size are JSON values, as the metadata gives them
RecResult(success, data, file_name, file_type, file_size, verified, commitment_valid, error) ==
    [success |-> success, data |-> data, file_name |-> file_name, file_type |-> file_type,
     file_size |-> file_size, verified |-> verified, commitment_valid |-> commitment_valid,
     error |-> error]
RecFailure(error) ==
    RecResult(FALSE, <<>>, JStr(EmptyStr), JStr(EmptyStr), JNum(0), FALSE, FALSE, Text(error))

MsgNoKey == "No key derived for security level "
MsgCallDerive == ". Call derive_key_from_signature() first."

\* the exception classes `except ValueError` catches
CaughtByValueError == {"ValueError", "binascii.Error", "JSONDecodeError"}
\* the result recover_file makes of an exception raised inside its try
RecCaught(out) ==
    Ok(RecFailure(IF out.exc \in CaughtByValueError THEN ExcStr(out)
                  ELSE <<"Recovery failed: ">> \o ExcStr(out)), out.steps)

\* proof.commitment[:16] of the progress line: a TypeError unless the
\* commitment is a string or a list
Sliceable(v) == Len(v) = 2 /\ v[1] \in {"str", "list"}

\* recover_file decrypting with the first key the cache holds when the
\* level asked for has none
RecRecoverFile_AnyKey(cache, store, security_level, storage_provider) ==
    LET held == {l \in SecurityLevels : cache[l] # NoKey}
        key == IF cache[security_level] # NoKey \/ held = {} THEN cache[security_level]
               ELSE cache[CHOOSE l \in held : TRUE]
        content_result == DownloadEncryptedContent(store, storage_provider)
        proof_result == R2DownloadProof(store.r2)
        proof == proof_result.proof
        st1 == <<"get_decryptor", "download_content">>
        st2 == st1 \o <<"download_proof">>
    IN  IF key = NoKey
        THEN Ok(RecFailure(<<MsgNoKey, ToString(security_level), MsgCallDerive>>),
                <<"get_decryptor">>)
        ELSE IF ~content_result.success
        THEN Ok(RecFailure(<<"Failed to download content: ">> \o content_result.error.text), st1)
        ELSE IF ~proof_result.success
        THEN Ok(RecFailure(<<"Failed to download proof: ">> \o proof_result.error.text), st2)
        ELSE IF ~Sliceable(proof.commitment)
        THEN RecCaught(Raise("TypeError", "object is not subscriptable", st2))
        ELSE LET cb == DecryptCriticalBytes(key, proof.encrypted_critical_bytes,
                                            proof.encryption_iv, st2)
                 file_iv == B64Decode(proof.encrypted_iv)
                 st3 == cb.steps \o <<"b64decode_encrypted_iv">>
             IN  IF cb.exc # "" THEN RecCaught(cb)
                 ELSE IF file_iv.exc # "" THEN RecCaught(Raise(file_iv.exc, file_iv.msg, st3))
                 ELSE LET dec == AESDecryptFile(key, content_result.data, cb.val, file_iv.val,
                                                proof.commitment, None, st3)
                      IN  IF dec.exc # "" THEN RecCaught(dec)
                          ELSE Ok(RecResult(TRUE, dec.val.data, JStr(Lit("recovered_file")),
                                            JStr(Lit("application/octet-stream")),
                                            JNum(Len(dec.val.data)),
                                            dec.val.verified, dec.val.commitment_valid, NoText),
                                  dec.steps)

\* BlockDriveRecovery.recover_file(content_cid, proof_cid, security_level,
\* storage_provider); cache is self._decryptors (NoKey: the level is not in
\* the dict), store what the stores answer
RecRecoverFile(cache, store, security_level, storage_provider) ==
    LET key == cache[security_level]
        content_result == DownloadEncryptedContent(store, storage_provider)
        proof_result == R2DownloadProof(store.r2)
        proof == proof_result.proof
        st1 == <<"get_decryptor", "download_content">>
        st2 == st1 \o <<"download_proof">>
    IN  IF key = NoKey
        THEN Ok(RecFailure(<<MsgNoKey, ToString(security_level), MsgCallDerive>>),
                <<"get_decryptor">>)
        ELSE IF ~content_result.success
        THEN Ok(RecFailure(<<"Failed to download content: ">> \o content_result.error.text), st1)
        ELSE IF ~proof_result.success
        THEN Ok(RecFailure(<<"Failed to download proof: ">> \o proof_result.error.text), st2)
        ELSE IF ~Sliceable(proof.commitment)
        THEN RecCaught(Raise("TypeError", "object is not subscriptable", st2))
        ELSE LET cb == DecryptCriticalBytes(key, proof.encrypted_critical_bytes,
                                            proof.encryption_iv, st2)
                 file_iv == B64Decode(proof.encrypted_iv)
                 st3 == cb.steps \o <<"b64decode_encrypted_iv">>
             IN  IF cb.exc # "" THEN RecCaught(cb)
                 ELSE IF file_iv.exc # "" THEN RecCaught(Raise(file_iv.exc, file_iv.msg, st3))
                 ELSE LET dec == AESDecryptFile(key, content_result.data, cb.val, file_iv.val,
                                                proof.commitment, None, st3)
                      IN  IF dec.exc # "" THEN RecCaught(dec)
                          ELSE Ok(RecResult(TRUE, dec.val.data, JStr(Lit("recovered_file")),
                                            JStr(Lit("application/octet-stream")),
                                            JNum(Len(dec.val.data)),
                                            dec.val.verified, dec.val.commitment_valid, NoText),
                                  dec.steps)

\* ================================================== solana.py
\* Account data is a byte string; <<"d", m, i>> is byte i of the SHA-256
\* digest of m.  A layout is the sequence of <<field, length>> the
\* deserializer walks with its running offset.
DIGEST_LENGTH == 32
DigestBytes(m) == [i \in 1..DIGEST_LENGTH |-> <<"d", m, i>>]
\* bytes.hex(): the hex digest of m when the bytes are the digest of m
HexOf(bytes) ==
    IF Len(bytes) = DIGEST_LENGTH /\ bytes[1][1] = "d" /\ bytes = DigestBytes(bytes[1][2])
    THEN Sha256Hex(bytes[1][2])
    ELSE <<"rawhex", bytes, "lower">>
Zeros(n) == [i \in 1..n |-> <<"p", 0>>]
\* the int value of data[offset]
ByteInt(b) == b[2]
\* struct.unpack("<Q", bytes)[0]; the model's records keep the four high
\* bytes zero
RECURSIVE LeInt(_)
LeInt(bytes) == IF bytes = <<>> THEN 0 ELSE ByteInt(Head(bytes)) + 256 * LeInt(Tail(bytes))
\* bytes.rstrip(b"\x00").decode("utf-8", errors="ignore")
RECURSIVE RStripZeros(_)
RStripZeros(bytes) ==
    IF bytes # <<>> /\ bytes[Len(bytes)] = <<"p", 0>>
    THEN RStripZeros(SubSeq(bytes, 1, Len(bytes) - 1)) ELSE bytes
CidOf(bytes) == <<"utf8", RStripZeros(bytes), "">>

RECURSIVE OffsetOf(_, _)
OffsetOf(layout, field) ==
    IF Head(layout)[1] = field THEN 0 ELSE Head(layout)[2] + OffsetOf(Tail(layout), field)
\* data[o:o + n] for the field, and whether data[o] exists
FieldOf(data, layout, field) ==
    PySlice(data, OffsetOf(layout, field), OffsetOf(layout, field) + Lookup(layout, field))
HasByteAt(data, layout, field) == Len(data) > OffsetOf(layout, field)
Unpackable(data, layout, field) == Len(FieldOf(data, layout, field)) = Lookup(layout, field)

\* ------------------------------------------------ blockdrive/solana.py
FILE_RECORD_LAYOUT ==
    << <<"discriminator", 8>>, <<"bump", 1>>, <<"vault", 32>>, <<"owner", 32>>,
       <<"file_id", 16>>, <<"metadata_blob_cid", 64>>, <<"encryption_commitment", 32>>,
       <<"critical_bytes_commitment", 32>>, <<"security_level", 1>>, <<"file_size", 8>>,
       <<"created_at", 8>>, <<"status", 1>>, <<"delegation_count", 1>> >>

\* _deserialize storing the raw byte as the level
Deserialize_RawLevel(data, owner) ==
    LET L == FILE_RECORD_LAYOUT
        sec_level_raw == ByteInt(FieldOf(data, L, "security_level")[1])
    IN  IF ~HasByteAt(data, L, "bump") \/ ~HasByteAt(data, L, "security_level")
        THEN Raise("IndexError", "index out of range", <<>>)
        ELSE IF ~Unpackable(data, L, "file_size") \/ ~Unpackable(data, L, "created_at")
        THEN Raise("struct.error", "unpack requires a buffer of 8 bytes", <<>>)
        ELSE IF ~HasByteAt(data, L, "status") \/ ~HasByteAt(data, L, "delegation_count")
        THEN Raise("IndexError", "index out of range", <<>>)
        ELSE Ok([file_id |-> HexOf(FieldOf(data, L, "file_id")),
                 vault |-> <<"base58", FieldOf(data, L, "vault"), "">>,
                 owner |-> owner,
                 metadata_blob_cid |-> CidOf(FieldOf(data, L, "metadata_blob_cid")),
                 encryption_commitment |-> HexOf(FieldOf(data, L, "encryption_commitment")),
                 critical_bytes_commitment |->
                     HexOf(FieldOf(data, L, "critical_bytes_commitment")),
                 security_level |-> sec_level_raw,
                 file_size |-> LeInt(FieldOf(data, L, "file_size")),
                 created_at |-> LeInt(FieldOf(data, L, "created_at")),
                 status |-> ByteInt(FieldOf(data, L, "status")[1]),
                 delegation_count |-> ByteInt(FieldOf(data, L, "delegation_count")[1])],
                <<>>)

\* SolanaVerifier._deserialize(data, owner): the fields are read in layout
\* order, SecurityLevel(sec_level_raw + 1) is evaluated last, in the
\* FileRecord(...) call
Deserialize(data, owner) ==
    LET L == FILE_RECORD_LAYOUT
        sec_level_raw == ByteInt(FieldOf(data, L, "security_level")[1])
    IN  IF ~HasByteAt(data, L, "bump") \/ ~HasByteAt(data, L, "security_level")
        THEN Raise("IndexError", "index out of range", <<>>)
        ELSE IF ~Unpackable(data, L, "file_size") \/ ~Unpackable(data, L, "created_at")
        THEN Raise("struct.error", "unpack requires a buffer of 8 bytes", <<>>)
        ELSE IF ~HasByteAt(data, L, "status") \/ ~HasByteAt(data, L, "delegation_count")
        THEN Raise("IndexError", "index out of range", <<>>)
        ELSE IF sec_level_raw + 1 \notin SecurityLevels
        THEN Raise("ValueError", "is not a valid SecurityLevel", <<>>)
        ELSE Ok([file_id |-> HexOf(FieldOf(data, L, "file_id")),
                 vault |-> <<"base58", FieldOf(data, L, "vault"), "">>,
                 owner |-> owner,
                 metadata_blob_cid |-> CidOf(FieldOf(data, L, "metadata_blob_cid")),
                 encryption_commitment |-> HexOf(FieldOf(data, L, "encryption_commitment")),
                 critical_bytes_commitment |->
                     HexOf(FieldOf(data, L, "critical_bytes_commitment")),
                 security_level |-> sec_level_raw + 1,
                 file_size |-> LeInt(FieldOf(data, L, "file_size")),
                 created_at |-> LeInt(FieldOf(data, L, "created_at")),
                 status |-> ByteInt(FieldOf(data, L, "status")[1]),
                 delegation_count |-> ByteInt(FieldOf(data, L, "delegation_count")[1])],
                <<>>)

\* what an RPC call answers: an error raised by the client, or a value
\* (None, one account's data, or a list of accounts' data)
RpcError == [error |-> TRUE, found |-> FALSE, value |-> <<>>]
RpcNone == [error |-> FALSE, found |-> FALSE, value |-> <<>>]
RpcValue(v) == [error |-> FALSE, found |-> TRUE, value |-> v]

\* an Optional record: None or a record
NoRecord == [some |-> FALSE, record |-> <<>>]
SomeRecord(r) == [some |-> TRUE, record |-> r]

\* the loop of fetch_all_file_records over the accounts from position i
\* on: an account whose data does not deserialize is skipped
RECURSIVE FetchAllLoop(_, _, _)
FetchAllLoop(accounts, owner, i) ==
    IF i > Len(accounts) THEN <<>>
    ELSE LET record == Deserialize(accounts[i], owner)
         IN  IF record.exc # "" THEN FetchAllLoop(accounts, owner, i + 1)
             ELSE <<record.val>> \o FetchAllLoop(accounts, owner, i + 1)

\* SolanaVerifier.fetch_all_file_records(vault_owner); resp is what
\* get_program_accounts answers (`resp.value or []`)
FetchAllFileRecords(resp, owner) ==
    IF resp.error THEN Raise("RPCException", "rpc", <<"get_program_accounts">>)
    ELSE Ok(FetchAllLoop(resp.value, owner, 1), <<"get_program_accounts">>)

\* SolanaVerifier.fetch_file_record(vault_owner, file_id_hex) of blockdrive;
\* file_id_ok: the id is hex of 16 bytes; resp what get_account_info
\* answers
FetchFileRecord(resp, owner, file_id_ok) ==
    IF ~file_id_ok THEN Raise("ValueError", "file_id must decode to 16 bytes", <<>>)
    ELSE IF resp.error THEN Raise("RPCException", "rpc", <<"get_account_info">>)
    ELSE IF ~resp.found THEN Ok(NoRecord, <<"get_account_info">>)
    ELSE LET record == Deserialize(resp.value, owner)
         IN  IF record.exc # "" THEN Raise(record.exc, record.msg, <<"get_account_info">>)
             ELSE Ok(SomeRecord(record.val), <<"get_account_info">>)

\* ------------------------------------------------ blockdrive_recovery/solana.py
ON_CHAIN_LAYOUT ==
    << <<"discriminator", 8>>, <<"bump", 1>>, <<"vault", 32>>, <<"owner", 32>>,
       <<"file_id", 16>>, <<"filename_hash", 32>>, <<"file_size", 8>>,
       <<"encrypted_size", 8>>, <<"mime_type_hash", 32>>, <<"security_level", 1>>,
       <<"encryption_commitment", 32>>, <<"critical_bytes_commitment", 32>>,
       <<"primary_cid", 64>>, <<"redundancy_cid", 64>>, <<"provider_count", 1>>,
       <<"created_at", 8>>, <<"accessed_at", 8>>, <<"status", 1>>, <<"is_shared", 1>>,
       <<"delegation_count", 1>>, <<"reserved", 32>> >>

\* SolanaVerifier._deserialize_file_record(data, owner): SecurityLevel(
\* security_level_value + 1) is evaluated as soon as the byte is read
DeserializeFileRecord(data, owner) ==
    LET L == ON_CHAIN_LAYOUT
        security_level_value == ByteInt(FieldOf(data, L, "security_level")[1])
    IN  IF ~HasByteAt(data, L, "bump")
        THEN Raise("IndexError", "index out of range", <<>>)
        ELSE IF ~Unpackable(data, L, "file_size")
        THEN Raise("struct.error", "unpack requires a buffer of 8 bytes", <<>>)
        ELSE IF ~HasByteAt(data, L, "security_level")
        THEN Raise("IndexError", "index out of range", <<>>)
        ELSE IF security_level_value + 1 \notin SecurityLevels
        THEN Raise("ValueError", "is not a valid SecurityLevel", <<>>)
        ELSE IF ~Unpackable(data, L, "created_at")
        THEN Raise("struct.error", "unpack requires a buffer of 8 bytes", <<>>)
        ELSE IF ~HasByteAt(data, L, "is_shared") \/ ~HasByteAt(data, L, "delegation_count")
        THEN Raise("IndexError", "index out of range", <<>>)
        ELSE Ok([file_id |-> HexOf(FieldOf(data, L, "file_id")),
                 primary_cid |-> CidOf(FieldOf(data, L, "primary_cid")),
                 proof_cid |-> Lit(""),
                 encryption_commitment |-> HexOf(FieldOf(data, L, "encryption_commitment")),
                 critical_bytes_commitment |->
                     HexOf(FieldOf(data, L, "critical_bytes_commitment")),
                 security_level |-> security_level_value + 1,
                 owner |-> owner,
                 created_at |-> LeInt(FieldOf(data, L, "created_at")),
                 is_shared |-> ByteInt(FieldOf(data, L, "is_shared")[1]) = 1,
                 delegation_count |-> ByteInt(FieldOf(data, L, "delegation_count")[1])],
                <<>>)

\* SolanaVerifier.fetch_file_record(vault_owner, file_id) of
\* blockdrive_recovery: every exception is caught and None returned
RecFetchFileRecord(resp, owner, file_id_ok) ==
    IF ~file_id_ok THEN Ok(NoRecord, <<>>)
    ELSE IF resp.error \/ ~resp.found THEN Ok(NoRecord, <<"get_account_info">>)
    ELSE LET record == DeserializeFileRecord(resp.value, owner)
         IN  IF record.exc # "" THEN Ok(NoRecord, <<"get_account_info">>)
             ELSE Ok(SomeRecord(record.val), <<"get_account_info">>)

\* ------------------------------------------------ on-chain verification and metadata
\* VerificationResult of blockdrive_recovery/solana.py
VerificationResult(verified, on_chain, commitment_matches, owner_matches, error) ==
    [verified |-> verified, on_chain |-> on_chain, commitment_matches |-> commitment_matches,
     owner_matches |-> owner_matches, error |-> error]

\* SolanaVerifier.verify_file_commitment(vault_owner, file_id,
\* expected_commitment) with no current_owner; chain: what the RPC node
\* answers and whether the file id is hex of 16 bytes
VerifyFileCommitment(chain, expected_commitment) ==
    LET fetched == RecFetchFileRecord(chain.resp, chain.owner, chain.file_id_ok).val
    IN  IF ~fetched.some
        THEN VerificationResult(FALSE, FALSE, FALSE, FALSE, Text(<<"File not found on-chain">>))
        ELSE IF ~IsStr(expected_commitment)
        THEN VerificationResult(FALSE, FALSE, FALSE, FALSE,
                                Text(<<"object has no attribute 'lower'">>))
        ELSE LET commitment_matches ==
                     StrLower(expected_commitment[2]) =
                         StrLower(fetched.record.critical_bytes_commitment)
             IN  VerificationResult(commitment_matches, TRUE, commitment_matches, TRUE, NoText)

\* BlockDriveRecovery.verify_on_chain: None when the Solana packages are
\* missing or the verifier cannot be built (chain.program_ok: the program
\* id is a public key)
NoVerification == [some |-> FALSE, result |-> <<>>]
VerifyOnChain(chain, expected_commitment) ==
    IF ~chain.available \/ ~chain.program_ok THEN NoVerification
    ELSE [some |-> TRUE, result |-> VerifyFileCommitment(chain, expected_commitment)]

\* recover_with_verification running recover_file before it looks at the
\* outcome of the verification
RecoverWithVerification_RecoverFirst(cache, store, chain, security_level, storage_provider) ==
    LET st == <<"download_proof", "verify_on_chain">>
        Checked(proof_result, verification, rest) ==
            IF ~proof_result.success
            THEN Ok(RecFailure(<<"Failed to download proof: ">> \o proof_result.error.text),
                    <<"download_proof">>)
            ELSE IF ~chain.available
            THEN Ok(rest.val, <<"download_proof">> \o rest.steps)
            ELSE IF verification.some /\ ~verification.result.verified
            THEN Ok(RecFailure(IF ~verification.result.on_chain
                               THEN <<"File not found on-chain">>
                               ELSE IF ~verification.result.commitment_matches
                               THEN <<"Commitment mismatch - file may be tampered">>
                               ELSE <<"On-chain verification failed">>),
                    <<"download_proof">> \o rest.steps \o <<"verify_on_chain">>)
            ELSE Ok(rest.val, <<"download_proof">> \o rest.steps \o <<"verify_on_chain">>)
        Verified(proof_result) ==
            Checked(proof_result, VerifyOnChain(chain, proof_result.proof.commitment),
                    RecRecoverFile(cache, [store EXCEPT !.r2 = store.r2_again], security_level,
                                   storage_provider))
    IN  Verified(R2DownloadProof(store.r2))

\* BlockDriveRecovery.recover_with_verification: the proof is downloaded
\* and checked against the chain, then recover_file runs and downloads the
\* proof again (store.r2: what R2 answers the first time, store.r2_again:
\* the second time)
RecoverWithVerification(cache, store, chain, security_level, storage_provider) ==
    LET st == <<"download_proof", "verify_on_chain">>
        Checked(proof_result, verification, rest) ==
            IF ~proof_result.success
            THEN Ok(RecFailure(<<"Failed to download proof: ">> \o proof_result.error.text),
                    <<"download_proof">>)
            ELSE IF ~chain.available
            THEN Ok(rest.val, <<"download_proof">> \o rest.steps)
            ELSE IF verification.some /\ ~verification.result.verified
            THEN Ok(RecFailure(IF ~verification.result.on_chain
                               THEN <<"File not found on-chain">>
                               ELSE IF ~verification.result.commitment_matches
                               THEN <<"Commitment mismatch - file may be tampered">>
                               ELSE <<"On-chain verification failed">>), st)
            ELSE Ok(rest.val, st \o rest.steps)
        Verified(proof_result) ==
            Checked(proof_result, VerifyOnChain(chain, proof_result.proof.commitment),
                    RecRecoverFile(cache, [store EXCEPT !.r2 = store.r2_again], security_level,
                                   storage_provider))
    IN  Verified(R2DownloadProof(store.r2))

\* AESDecryptor.decrypt_metadata(encrypted_metadata, metadata_iv): the
\* three fields recover_with_metadata uses
DecryptMetadata(key, encrypted_metadata, metadata_iv) ==
    LET enc == B64Decode(encrypted_metadata)
        ivb == B64Decode(metadata_iv)
    IN  IF enc.exc # "" THEN Raise(enc.exc, enc.msg, <<>>)
        ELSE IF ivb.exc # "" THEN Raise(ivb.exc, ivb.msg, <<>>)
        ELSE LET dec == GcmDecrypt(key, ivb.val, enc.val)
                 parsed == ParseProofJson(dec.val)
                 data == parsed.val
             IN  IF dec.exc # "" THEN Raise(dec.exc, dec.msg, <<>>)
                 ELSE IF parsed.exc # "" THEN Raise(parsed.exc, parsed.msg, <<>>)
                 ELSE IF ~IsDict(data)
                 THEN Raise("AttributeError", "object has no attribute 'get'", <<>>)
                 ELSE IF ~IsSecurityLevel(DictGet(data[2], "securityLevel", JNum(1)))
                 THEN Raise("ValueError", "is not a valid SecurityLevel", <<>>)
                 ELSE Ok([file_name |-> DictGet(data[2], "fileName", JStr(Lit("unknown"))),
                          file_type |-> DictGet(data[2], "fileType",
                                                JStr(Lit("application/octet-stream"))),
                          file_size |-> DictGet(data[2], "fileSize", JNum(0))], <<>>)

\* BlockDriveRecovery.recover_with_metadata: recover_file, then the
\* metadata is fetched and decrypted; any failure there leaves the result
\* of recover_file as it is.  store.metadata: what the stores answer for
\* the metadata CID
RecoverWithMetadata(cache, store, security_level, storage_provider) ==
    LET Decrypted(result, st, metadata) ==
            IF metadata.exc # "" THEN Ok(result.val, st)
            ELSE Ok([result.val EXCEPT !.file_name = metadata.val.file_name,
                                       !.file_type = metadata.val.file_type,
                                       !.file_size = metadata.val.file_size],
                    st \o <<"decrypt_metadata">>)
        Parsed(result, st, parsed) ==
            IF parsed.exc # "" \/ ~IsDict(parsed.val) THEN Ok(result.val, st)
            ELSE IF ~HasKey(parsed.val[2], "encryptedMetadata") \/
                    ~HasKey(parsed.val[2], "metadataIv")
            THEN Ok(result.val, st)
            ELSE Decrypted(result, st,
                           DecryptMetadata(cache[security_level],
                                           Lookup(parsed.val[2], "encryptedMetadata"),
                                           Lookup(parsed.val[2], "metadataIv")))
        Downloaded(result, st, metadata_result) ==
            IF ~metadata_result.success THEN Ok(result.val, st)
            ELSE Parsed(result, st, ParseProofJson(metadata_result.data))
        Recovered(result) ==
            IF ~result.val.success THEN result
            ELSE Downloaded(result, result.steps \o <<"download_metadata">>,
                            DownloadEncryptedContent(store.metadata, storage_provider))
    IN  Recovered(RecRecoverFile(cache, store, security_level, storage_provider))

\* ------------------------------------------------------------------ state
\* crypto: BlockDriveRecovery._crypto, the key of each level's
\*         BlockDriveCrypto (NoKey: the level is not in the dict)
\* call:   the last call made on the SDK: the operation, how the producer
\*         made its inputs (gen), the inputs (args) and the outcome (out)
\* sdk:        the package the application uses, "blockdrive" or
\*             "blockdrive_recovery"
\* keys, decryptors: blockdrive_recovery's BlockDriveRecovery._keys and
\*             ._decryptors (the key of each level's AESDecryptor)
\* outfile:    the file at the command line's --output path (NoFile: absent)
VARIABLES crypto, keys, decryptors, sdk, outfile, call
vars == <<crypto, keys, decryptors, sdk, outfile, call>>
\* what a call on a static method or a download leaves alone
instance == <<crypto, keys, decryptors, sdk, outfile>>

SDKs == {"blockdrive", "blockdrive_recovery"}
NoFile == [exists |-> FALSE, data |-> <<>>]
File(data) == [exists |-> TRUE, data |-> data]
EmptyCache == [l \in SecurityLevels |-> NoKey]

NoCall == [op |-> "none", gen |-> <<>>, args |-> <<>>, out |-> Ok(<<>>, <<>>)]

Versions == {0, 1, 2, 3}
PayloadKinds == {"exact", "short", "extra"}

\* the producer's file and the proof record of a generation choice
ProofFile(g) == EncryptFile(OwnerKey, g.plaintext, FileNonce)
GenProof(g) ==
    JDict(Tamper(BuildProof(g.version, OwnerKey, ProofFile(g), g.payload), g.tamper))
ProofGens ==
    [version : Versions, plaintext : Plaintexts, payload : PayloadKinds, tamper : Tampers]

CryptoInit ==
    /\ sdk \in SDKs
    /\ crypto = EmptyCache
    /\ keys = EmptyCache
    /\ decryptors = EmptyCache
    /\ outfile = NoFile
    /\ call = NoCall

\* crypto = BlockDriveCrypto(key); crypto.verify_and_decrypt_proof(proof)
CallVerifyAndDecryptProof ==
    \E key \in CallKeys, g \in ProofGens :
        LET proof == GenProof(g)
        IN  /\ call.op = "none"
            /\ sdk = "blockdrive"
            /\ call' = [op |-> "verify_and_decrypt_proof", gen |-> g,
                        args |-> [key |-> key, proof |-> proof],
                        out |-> VerifyAndDecryptProof(key, proof)]
            /\ UNCHANGED instance

\* BlockDriveCrypto.verify_proof_integrity(proof)
CallVerifyProofIntegrity ==
    \E g \in ProofGens, isDict \in BOOLEAN :
        LET proof == IF isDict THEN GenProof(g) ELSE JList(<<>>)
        IN  /\ call.op = "none"
            /\ sdk = "blockdrive"
            /\ call' = [op |-> "verify_proof_integrity", gen |-> g,
                        args |-> [proof |-> proof],
                        out |-> VerifyProofIntegrity(proof)]
            /\ UNCHANGED instance

\* the record of a _compute_proof_hash call: the producer's record with its
\* members in the built or the reverse order, with a member the hash does
\* not cover changed or all of them dropped, and with the zero-knowledge
\* members as built or set
KeyOrders == {"built", "reversed"}
OutsideChanges == {"none", "encryptionIv", "encryptedIv", "verificationData", "proofHash",
                   "dropped"}
ZkKinds == {"built", "set"}
HashGens ==
    [version : Versions, order : KeyOrders, outside : OutsideChanges, zk : ZkKinds]
Reverse(seq) == [i \in 1..Len(seq) |-> seq[Len(seq) + 1 - i]]
HashFile == EncryptFile(OwnerKey, LongPlain, FileNonce)
GenZk(d, zk) ==
    IF zk = "built" THEN d
    ELSE DictSet(DictSet(d, "groth16Proof", <<"obj", "pi_a pi_b pi_c">>),
                 "publicSignals", JList(<<JStr(Lit("signal1"))>>))
GenOutside(d, outside) ==
    CASE outside = "none" -> d
      [] outside = "dropped" ->
            DictDel(DictDel(DictDel(DictDel(d, "encryptionIv"), "encryptedIv"),
                            "verificationData"), "proofHash")
      [] outside = "verificationData" -> DictSet(d, outside, <<"obj", "other">>)
      [] OTHER -> DictSet(d, outside, JStr(ZeroDigest))
GenHashRecord(g) ==
    LET built == GenOutside(GenZk(BuildProof(g.version, OwnerKey, HashFile, "exact"), g.zk),
                            g.outside)
    IN  JDict(IF g.order = "reversed" THEN Reverse(built) ELSE built)

\* BlockDriveCrypto._compute_proof_hash(proof)
CallComputeProofHash ==
    \E g \in HashGens :
        LET proof == GenHashRecord(g)
        IN  /\ call.op = "none"
            /\ sdk = "blockdrive"
            /\ call' = [op |-> "compute_proof_hash", gen |-> g,
                        args |-> [proof |-> proof],
                        out |-> ComputeProofHash(proof)]
            /\ UNCHANGED instance

\* the level values derive_key is called with: the levels and two values
\* outside them
CallLevels == SecurityLevels \cup {0, 4}

\* BlockDriveWallet.derive_key(signature, level) of blockdrive,
\* KeyDerivation.derive_key(signature, level) of blockdrive_recovery
CallDeriveKey ==
    \E sig \in Signatures, level \in CallLevels :
        /\ call.op = "none"
        /\ call' = [op |-> "derive_key", gen |-> <<>>,
                    args |-> [signature |-> sig, level |-> level],
                    out |-> IF sdk = "blockdrive" THEN WalletDeriveKey(sig, level)
                            ELSE KeyDerivationDeriveKey(sig, level)]
        /\ UNCHANGED instance

\* the inputs of a decrypt_file call, of a generation choice: the file is
\* plaintext encrypted under fileKey and nonce enc_iv
ContentKinds == {"ok", "truncated", "other_file"}
NonceKinds == {"ok", "other"}
CommitmentKinds == {"match", "upper", "zero"}
HashKinds == {"none", "empty", "right", "right_upper", "wrong"}
OtherPlain == << <<"p", 1>>, <<"p", 0>> >>
FileGens ==
    [fileKey : CallKeys, plaintext : Plaintexts, enc_iv : {FileNonce, SealNonce},
     content : ContentKinds, file_iv : NonceKinds,
     commitment : CommitmentKinds, expected_hash : HashKinds]

GenFile(g) == EncryptFile(g.fileKey, g.plaintext, g.enc_iv)
GenContent(g) ==
    CASE g.content = "ok" -> GenFile(g).remaining
      [] g.content = "truncated" ->
            PySlice(GenFile(g).remaining, 0, Len(GenFile(g).remaining) - 1)
      [] g.content = "other_file" -> EncryptFile(g.fileKey, OtherPlain, g.enc_iv).remaining
GenFileIv(g) ==
    IF g.file_iv = "ok" THEN g.enc_iv
    ELSE IF g.enc_iv = FileNonce THEN SealNonce ELSE FileNonce
GenCommitment(g) ==
    CASE g.commitment = "match" -> JStr(GenFile(g).commitment)
      [] g.commitment = "upper" -> JStr(StrUpper(GenFile(g).commitment))
      [] g.commitment = "zero" -> JStr(ZeroDigest)
GenExpectedHash(kind, plaintext) ==
    CASE kind = "none" -> None
      [] kind = "empty" -> JStr(EmptyStr)
      [] kind = "right" -> JStr(Sha256Hex(plaintext))
      [] kind = "right_upper" -> JStr(StrUpper(Sha256Hex(plaintext)))
      [] kind = "wrong" -> JStr(ZeroDigest)

\* crypto = BlockDriveCrypto(key); crypto.decrypt_file(...)
CallDecryptFile ==
    \E key \in CallKeys, g \in FileGens :
        LET a == [key |-> key, encrypted_content |-> GenContent(g),
                  critical_bytes |-> GenFile(g).critical_bytes, file_iv |-> GenFileIv(g),
                  commitment |-> GenCommitment(g),
                  expected_hash |-> GenExpectedHash(g.expected_hash, g.plaintext)]
        IN  /\ call.op = "none"
            /\ sdk = "blockdrive"
            /\ call' = [op |-> "decrypt_file", gen |-> g, args |-> a,
                        out |-> DecryptFile(a.key, a.encrypted_content, a.critical_bytes,
                                            a.file_iv, a.commitment, a.expected_hash)]
            /\ UNCHANGED instance

\* the synchronous call has returned; the caller makes the next one
Return ==
    /\ call.op # "none"
    /\ call' = NoCall
    /\ UNCHANGED instance

\* _compute_proof_hash(proof) on a record that lacks one or both of the
\* optional zero-knowledge members
AbsentMembers == {<<"groth16Proof">>, <<"publicSignals">>, <<"groth16Proof", "publicSignals">>}
PartialGens == [version : Versions, order : KeyOrders, zk : ZkKinds, absent : AbsentMembers]
RECURSIVE DictDelAll(_, _)
DictDelAll(d, ks) == IF ks = <<>> THEN d ELSE DictDelAll(DictDel(d, Head(ks)), Tail(ks))
GenPartialRecord(g) ==
    LET built == DictDelAll(GenZk(BuildProof(g.version, OwnerKey, HashFile, "exact"), g.zk),
                            g.absent)
    IN  JDict(IF g.order = "reversed" THEN Reverse(built) ELSE built)
CallComputeProofHashPartial ==
    \E g \in PartialGens :
        LET proof == GenPartialRecord(g)
        IN  /\ call.op = "none"
            /\ sdk = "blockdrive"
            /\ call' = [op |-> "compute_proof_hash_partial", gen |-> g,
                        args |-> [proof |-> proof],
                        out |-> ComputeProofHash(proof)]
            /\ UNCHANGED instance

CryptoNext ==
    \/ CallVerifyAndDecryptProof
    \/ CallVerifyProofIntegrity
    \/ CallDecryptFile
    \/ CallComputeProofHash
    \/ CallComputeProofHashPartial
    \/ CallDeriveKey
    \/ Return
CryptoSpec == CryptoInit /\ [][CryptoNext]_vars

\* ------------------------------------------------------------------ the stores
\* what an endpoint can answer to one request
Bodies == {<< <<"p", 0>> >>, << <<"p", 1>>, <<"p", 1>> >>}
Responses == {HttpOk(b) : b \in Bodies} \cup
             {HttpStatus("404"), HttpStatus("500"), NetError, Timeout}
GatewayResponses == [1..NumGateways -> Responses]

StorageInit ==
    /\ sdk = "blockdrive"
    /\ crypto = EmptyCache
    /\ keys = EmptyCache
    /\ decryptors = EmptyCache
    /\ outfile = NoFile
    /\ call = NoCall

\* BlockDriveStorage.download_ipfs_sync(cid)
CallDownloadIpfsSync ==
    \E responses \in GatewayResponses :
        /\ call.op = "none"
        /\ call' = [op |-> "download_ipfs_sync", gen |-> <<>>,
                    args |-> [responses |-> responses],
                    out |-> Ok(DownloadIpfsSync(responses), <<>>)]
        /\ UNCHANGED instance

\* BlockDriveStorage.download_ipfs(cid)
CallDownloadIpfs ==
    \E responses \in GatewayResponses :
        /\ call.op = "none"
        /\ call' = [op |-> "download_ipfs", gen |-> <<>>,
                    args |-> [responses |-> responses],
                    out |-> Ok(DownloadIpfs(responses), <<>>)]
        /\ UNCHANGED instance

\* BlockDriveStorage.download_proof_sync(proof_cid)
CallDownloadProofSync ==
    \E r2 \in Responses :
        /\ call.op = "none"
        /\ call' = [op |-> "download_proof_sync", gen |-> <<>>,
                    args |-> [r2 |-> r2],
                    out |-> Ok(DownloadProofSync(r2), <<>>)]
        /\ UNCHANGED instance

\* BlockDriveStorage.download_proof(proof_cid)
CallDownloadProof ==
    \E r2 \in Responses :
        /\ call.op = "none"
        /\ call' = [op |-> "download_proof", gen |-> <<>>,
                    args |-> [r2 |-> r2],
                    out |-> Ok(DownloadProof(r2), <<>>)]
        /\ UNCHANGED instance

\* BlockDriveStorage.download_proof_with_fallback_sync(proof_cid)
CallDownloadProofWithFallbackSync ==
    \E r2 \in Responses, responses \in GatewayResponses :
        /\ call.op = "none"
        /\ call' = [op |-> "download_proof_with_fallback_sync", gen |-> <<>>,
                    args |-> [r2 |-> r2, responses |-> responses],
                    out |-> Ok(DownloadProofWithFallbackSync(r2, responses), <<>>)]
        /\ UNCHANGED instance

\* BlockDriveStorage.download_proof_with_fallback(proof_cid)
CallDownloadProofWithFallback ==
    \E r2 \in Responses, responses \in GatewayResponses :
        /\ call.op = "none"
        /\ call' = [op |-> "download_proof_with_fallback", gen |-> <<>>,
                    args |-> [r2 |-> r2, responses |-> responses],
                    out |-> Ok(DownloadProofWithFallback(r2, responses), <<>>)]
        /\ UNCHANGED instance

StorageNext ==
    \/ CallDownloadIpfsSync
    \/ CallDownloadIpfs
    \/ CallDownloadProofSync
    \/ CallDownloadProof
    \/ CallDownloadProofWithFallbackSync
    \/ CallDownloadProofWithFallback
    \/ Return
StorageSpec == StorageInit /\ [][StorageNext]_vars

\* ------------------------------------------------------------------ the chain
\* the account data the on-chain program writes for a layout: each field
\* from values, zero bytes for a field values does not give
RECURSIVE Serialize(_, _)
Serialize(layout, values) ==
    IF layout = <<>> THEN <<>>
    ELSE (IF Head(layout)[1] \in DOMAIN values THEN values[Head(layout)[1]]
          ELSE Zeros(Head(layout)[2])) \o Serialize(Tail(layout), values)

\* the security-level bytes an account can hold, where its data can be cut
\* short, and the file sizes
RawLevels == {0, 1, 2, 3, 255}
CutKinds == {"full", "before_level", "after_level", "empty"}
FileSizes == {0, 300}
AccountGens == [raw : RawLevels, cut : CutKinds, size : FileSizes]
OwnerAddress == Lit("owner wallet")
\* the critical bytes the chain commits to
ChainCritical == [i \in 1..CRITICAL_BYTES_LENGTH |-> <<"p", 5>>]

LayoutOf(package) ==
    IF package = "blockdrive" THEN FILE_RECORD_LAYOUT ELSE ON_CHAIN_LAYOUT
GenAccountFull(package, g, critical_bytes) ==
    Serialize(LayoutOf(package),
              [f \in {"security_level", "file_size", "critical_bytes_commitment", "bump"} |->
                  CASE f = "security_level" -> << <<"p", g.raw>> >>
                    [] f = "file_size" ->
                          << <<"p", g.size % 256>>, <<"p", g.size \div 256>> >> \o Zeros(6)
                    [] f = "critical_bytes_commitment" -> DigestBytes(critical_bytes)
                    [] f = "bump" -> << <<"p", 254>> >>])
GenAccount(package, g) ==
    LET full == GenAccountFull(package, g, ChainCritical)
        at == OffsetOf(LayoutOf(package), "security_level")
    IN  CASE g.cut = "full" -> full
          [] g.cut = "before_level" -> PySlice(full, 0, at)
          [] g.cut = "after_level" -> PySlice(full, 0, at + 1)
          [] g.cut = "empty" -> <<>>

\* the accounts get_program_accounts lists: at most MaxAccounts of them
MaxAccounts == 2
ListGens == {g \in AccountGens : g.cut \in {"full", "before_level"} /\ g.size = 300}
AccountLists == UNION {[1..n -> ListGens] : n \in 0..MaxAccounts}

SolanaInit ==
    /\ sdk \in SDKs
    /\ crypto = EmptyCache
    /\ keys = EmptyCache
    /\ decryptors = EmptyCache
    /\ outfile = NoFile
    /\ call = NoCall

\* SolanaVerifier._deserialize(data, owner) of blockdrive,
\* SolanaVerifier._deserialize_file_record(data, owner) of
\* blockdrive_recovery
CallDeserialize ==
    \E g \in AccountGens :
        LET data == GenAccount(sdk, g)
        IN  /\ call.op = "none"
            /\ call' = [op |-> "deserialize", gen |-> g,
                        args |-> [data |-> data, owner |-> OwnerAddress],
                        out |-> IF sdk = "blockdrive" THEN Deserialize(data, OwnerAddress)
                                ELSE DeserializeFileRecord(data, OwnerAddress)]
            /\ UNCHANGED instance

\* SolanaVerifier.fetch_file_record(vault_owner, file_id) of either package
CallFetchFileRecord ==
    \E g \in AccountGens, rpc \in {"value", "none", "error"}, file_id_ok \in BOOLEAN :
        LET resp == CASE rpc = "value" -> RpcValue(GenAccount(sdk, g))
                      [] rpc = "none" -> RpcNone
                      [] rpc = "error" -> RpcError
        IN  /\ call.op = "none"
            /\ (rpc # "value" \/ ~file_id_ok) => g = [raw |-> 0, cut |-> "full", size |-> 0]
            /\ call' = [op |-> "fetch_file_record", gen |-> g,
                        args |-> [resp |-> resp, owner |-> OwnerAddress,
                                  file_id_ok |-> file_id_ok],
                        out |-> IF sdk = "blockdrive"
                                THEN FetchFileRecord(resp, OwnerAddress, file_id_ok)
                                ELSE RecFetchFileRecord(resp, OwnerAddress, file_id_ok)]
            /\ UNCHANGED instance

\* SolanaVerifier.fetch_all_file_records(vault_owner) of blockdrive
CallFetchAllFileRecords ==
    \E gs \in AccountLists, error \in BOOLEAN :
        LET resp == IF error THEN RpcError
                    ELSE RpcValue([i \in 1..Len(gs) |-> GenAccount("blockdrive", gs[i])])
        IN  /\ call.op = "none"
            /\ sdk = "blockdrive"
            /\ error => gs = <<>>
            /\ call' = [op |-> "fetch_all_file_records", gen |-> gs,
                        args |-> [resp |-> resp, owner |-> OwnerAddress],
                        out |-> FetchAllFileRecords(resp, OwnerAddress)]
            /\ UNCHANGED instance

SolanaNext ==
    \/ CallDeserialize
    \/ CallFetchFileRecord
    \/ CallFetchAllFileRecords
    \/ Return
SolanaSpec == SolanaInit /\ [][SolanaNext]_vars

\* ------------------------------------------------------------------ the orchestrator
\* what the stores hold for one recover_file call: the content gateways'
\* answers, the R2 answer and the gateways' answers for the proof
ContentEnvKinds == {"fail", "ok", "truncated"}
ProofEnvKinds == {"fail", "r2", "ipfs_fallback"}
ProofBytesKinds == {"dict", "not_json", "not_dict"}
OrchTampers == {"none", "hash_wrong", "commitment_other", "ecb_not_base64", "ecb_null",
                "no_proofHash"}
OrchPlaintexts == {<< <<"p", 0>> >>, LongPlain}
OrchHashKinds == {"none", "right", "wrong"}
OrchGens ==
    {g \in [content : ContentEnvKinds, proof : ProofEnvKinds, bytes : ProofBytesKinds,
            version : {2}, plaintext : OrchPlaintexts, payload : {"exact", "short"},
            tamper : OrchTampers] :
        /\ (g.proof = "fail" \/ g.bytes # "dict") =>
              (g.plaintext = LongPlain /\ g.payload = "exact" /\ g.tamper = "none")
        /\ g.proof = "fail" => g.bytes = "dict"
        /\ g.proof = "ipfs_fallback" => (g.bytes = "dict" /\ g.tamper = "none")
        /\ g.payload = "short" => g.tamper = "none"}

AllFail == [i \in 1..NumGateways |-> IF i = 1 THEN HttpStatus("404") ELSE NetError]
FirstServes(data) == [i \in 1..NumGateways |-> IF i = 1 THEN HttpOk(data) ELSE NetError]
GenProofBytes(g) ==
    CASE g.bytes = "dict" -> JsonDumps(GenProof(g))
      [] g.bytes = "not_json" -> << <<"p", 0>> >>
      [] g.bytes = "not_dict" -> JsonDumps(JList(<<>>))
GenEnv(g) ==
    LET remaining == ProofFile(g).remaining
    IN  [content |-> CASE g.content = "fail" -> AllFail
                       [] g.content = "ok" -> FirstServes(remaining)
                       [] g.content = "truncated" ->
                             FirstServes(PySlice(remaining, 0, Len(remaining) - 1)),
         r2 |-> IF g.proof = "r2" THEN HttpOk(GenProofBytes(g)) ELSE HttpStatus("500"),
         proof_ipfs |-> IF g.proof = "ipfs_fallback" THEN FirstServes(GenProofBytes(g))
                        ELSE AllFail]

\* ---- what the platform and the stores hand to blockdrive_recovery
\* the key the platform seals a file of a level with
RecOwnerKey(sig, level) == Hkdf(KEY_LENGTH, Rec_HKDF_SALT, Rec_HKDF_INFO[level], sig)
\* the JSON wrapper of the critical bytes that decrypt_critical_bytes opens
BytesWrapper(critical_bytes) ==
    JsonDumps(JDict(<< <<"bytes", JStr(B64Encode(critical_bytes))>> >>))
\* the proof record R2Client.download_proof reads
RecBuildProof(sealKey, file, level) ==
    << <<"commitment", JStr(file.commitment)>>,
       <<"encryptedCriticalBytes",
         JStr(B64Encode(GcmEncrypt(sealKey, SealNonce, BytesWrapper(file.critical_bytes))))>>,
       <<"encryptionIv", JStr(B64Encode(SealNonce))>>,
       <<"encryptedIv", JStr(B64Encode(file.file_iv))>>,
       <<"securityLevel", JNum(level)>>,
       <<"timestamp", JNum(ProofTimestamp)>>,
       <<"version", JStr(Lit("1.0"))>> >>

RecContentKinds == {"fail", "ok", "second", "truncated"}
FilebaseKinds == {"none", "ok", "fail"}
RecProofKinds == {"ok", "http_500", "net", "not_json", "not_dict", "no_commitment",
                  "no_encryptionIv", "bad_level", "commitment_null", "commitment_other",
                  "ecb_not_base64", "wrapper_no_bytes", "wrapper_not_json",
                  "iv_not_base64", "file_iv_short", "hash_ok", "hash_stale"}
SealLevels == {1, 2}
RecGens ==
    {g \in [content : RecContentKinds, provider : Providers, fb : FilebaseKinds,
            proof : RecProofKinds, seal_sig : Signatures, seal_level : SealLevels,
            plaintext : OrchPlaintexts] :
        /\ g.proof # "ok" =>
              (g.content = "ok" /\ g.provider = "filebase" /\ g.fb = "none")
        /\ (g.proof # "ok" \/ g.content # "ok" \/ g.provider # "filebase" \/ g.fb # "none") =>
              (g.plaintext = LongPlain /\ g.seal_sig = "sigA" /\ g.seal_level = 1)
        /\ g.plaintext # LongPlain => (g.seal_sig = "sigA" /\ g.seal_level = 1)}

RecFile(g) == EncryptFile(RecOwnerKey(g.seal_sig, g.seal_level), g.plaintext, FileNonce)
RecGenProof(g) ==
    LET key == RecOwnerKey(g.seal_sig, g.seal_level)
        file == RecFile(g)
        d == RecBuildProof(key, file, g.seal_level)
        sealed(wrapper) == JStr(B64Encode(GcmEncrypt(key, SealNonce, wrapper)))
        \* the record with the platform's proofTimestamp and proofHash
        timed == d \o << <<"proofTimestamp", JNum(ProofTimestamp)>> >>
        hashed == timed \o << <<"proofHash", JStr(ComputeProofHash(JDict(timed)).val)>> >>
    IN  CASE g.proof = "hash_ok" -> hashed
          [] g.proof = "hash_stale" -> DictSet(hashed, "proofTimestamp", JNum(ProofTimestamp + 1))
          [] g.proof = "no_commitment" -> DictDel(d, "commitment")
          [] g.proof = "no_encryptionIv" -> DictDel(d, "encryptionIv")
          [] g.proof = "bad_level" -> DictSet(d, "securityLevel", JNum(0))
          [] g.proof = "commitment_null" -> DictSet(d, "commitment", None)
          [] g.proof = "commitment_other" ->
                DictSet(d, "commitment", JStr(Sha256Hex(<< <<"p", 9>> >>)))
          [] g.proof = "ecb_not_base64" ->
                DictSet(d, "encryptedCriticalBytes", JStr(Lit("not base64!")))
          [] g.proof = "wrapper_no_bytes" ->
                DictSet(d, "encryptedCriticalBytes", sealed(JsonDumps(JDict(<<>>))))
          [] g.proof = "wrapper_not_json" ->
                DictSet(d, "encryptedCriticalBytes", sealed(file.critical_bytes))
          [] g.proof = "iv_not_base64" -> DictSet(d, "encryptedIv", JStr(Lit("not base64!")))
          [] g.proof = "file_iv_short" ->
                DictSet(d, "encryptedIv", JStr(B64Encode(<< <<"p", 1>> >>)))
          [] OTHER -> d
RecGenStore(g) ==
    LET remaining == RecFile(g).remaining
        served == IF g.content = "truncated"
                  THEN PySlice(remaining, 0, Len(remaining) - 1) ELSE remaining
    IN  [filebase |-> [configured |-> g.fb # "none",
                       response |-> IF g.fb = "ok" THEN HttpOk(served) ELSE HttpStatus("503")],
         gateway |->
            [u \in ContentUrls |->
                CASE g.content = "fail" ->
                        IF u = RecGateways[1] THEN NetError ELSE HttpStatus("404")
                  [] g.content = "second" ->
                        IF u = RecGateways[NumGateways] THEN HttpOk(served) ELSE Timeout
                  [] OTHER ->
                        IF u = RecGateways[1] THEN HttpOk(served) ELSE NetError],
         r2 |-> CASE g.proof = "http_500" -> HttpStatus("500")
                  [] g.proof = "net" -> NetError
                  [] g.proof = "not_json" -> HttpOk(<< <<"p", 0>> >>)
                  [] g.proof = "not_dict" -> HttpOk(JsonDumps(JList(<<>>)))
                  [] OTHER -> HttpOk(JsonDumps(JDict(RecGenProof(g))))]

\* BlockDriveRecovery(signatures=...) of blockdrive derives a key for each
\* level of the mapping; BlockDriveRecovery() of blockdrive_recovery starts
\* with no key
Init ==
    /\ sdk \in SDKs
    /\ crypto \in IF sdk = "blockdrive"
                  THEN {[l \in SecurityLevels |-> IF l \in ls THEN DeriveKey(sig, l) ELSE NoKey] :
                           ls \in SUBSET SecurityLevels, sig \in Signatures}
                  ELSE {EmptyCache}
    /\ keys = EmptyCache
    /\ decryptors = EmptyCache
    /\ outfile = NoFile
    /\ call = NoCall

\* BlockDriveRecovery.add_signature(signature, level)
\* (_add_key: the key is derived, then stored; a KeyError of derive_key
\* leaves _crypto as it was)
AddSignature ==
    \E sig \in Signatures, level \in CallLevels :
        LET derived == WalletDeriveKey(sig, level)
        IN  /\ call.op = "none"
            /\ sdk = "blockdrive"
            /\ crypto' = IF derived.exc = "" THEN [crypto EXCEPT ![level] = derived.val]
                          ELSE crypto
            /\ call' = [op |-> "add_signature", gen |-> <<>>,
                        args |-> [signature |-> sig, level |-> level, before |-> crypto],
                        out |-> IF derived.exc = "" THEN Ok(<<>>, <<"derive_key">>)
                                ELSE Raise(derived.exc, derived.msg, <<"derive_key">>)]
            /\ UNCHANGED <<keys, decryptors, sdk, outfile>>

\* BlockDriveRecovery.recover_file(content_cid, proof_cid, security_level,
\* expected_hash)
CallRecoverFile ==
    \E level \in SecurityLevels, g \in OrchGens, h \in OrchHashKinds :
        LET env == GenEnv(g)
            expected_hash == GenExpectedHash(h, g.plaintext)
        IN  /\ call.op = "none"
            /\ sdk = "blockdrive"
            /\ call' = [op |-> "recover_file", gen |-> g,
                        args |-> [security_level |-> level, env |-> env,
                                  expected_hash |-> expected_hash,
                                  key |-> crypto[level]],
                        out |-> RecoverFile(crypto[level], env, expected_hash)]
            /\ UNCHANGED instance

\* derive_key_from_signature starting from empty caches each time
DeriveInto_ClearsOthers(c, signature, level) ==
    LET derived == KeyDerivationDeriveKey(signature, level)
    IN  IF derived.exc # "" THEN [keys |-> c.keys, decryptors |-> c.decryptors, ok |-> FALSE]
        ELSE [keys |-> [EmptyCache EXCEPT ![level] = derived.val],
              decryptors |-> [EmptyCache EXCEPT ![level] = derived.val], ok |-> TRUE]

\* the caches after derive_key_from_signature(signature, level) on caches
\* c = [keys, decryptors]: _keys[level] is set before AESDecryptor(key)
\* is built, and any exception makes the method return False
DeriveInto(c, signature, level) ==
    LET derived == KeyDerivationDeriveKey(signature, level)
        built == AESDecryptorInit(derived.val)
    IN  IF derived.exc # "" THEN [keys |-> c.keys, decryptors |-> c.decryptors, ok |-> FALSE]
        ELSE IF built.exc # ""
        THEN [keys |-> [c.keys EXCEPT ![level] = derived.val],
              decryptors |-> c.decryptors, ok |-> FALSE]
        ELSE [keys |-> [c.keys EXCEPT ![level] = derived.val],
              decryptors |-> [c.decryptors EXCEPT ![level] = built.val], ok |-> TRUE]

\* BlockDriveRecovery.derive_key_from_signature(signature, level) of
\* blockdrive_recovery
DeriveKeyFromSignature ==
    \E sig \in Signatures, level \in CallLevels :
        LET r == DeriveInto([keys |-> keys, decryptors |-> decryptors], sig, level)
        IN  /\ call.op = "none"
            /\ sdk = "blockdrive_recovery"
            /\ keys' = r.keys
            /\ decryptors' = r.decryptors
            /\ call' = [op |-> "derive_key_from_signature", gen |-> <<>>,
                        args |-> [signature |-> sig, level |-> level, before |-> decryptors],
                        out |-> Ok(r.ok, <<"derive_key">>)]
            /\ UNCHANGED <<crypto, sdk, outfile>>

\* the loop of derive_all_keys over the items of signatures, in order,
\* stopping at the first derivation that fails
RECURSIVE DeriveAll(_, _)
DeriveAll(c, items) ==
    IF items = <<>> THEN [keys |-> c.keys, decryptors |-> c.decryptors, ok |-> TRUE]
    ELSE LET r == DeriveInto(c, Head(items)[2], Head(items)[1])
         IN  IF ~r.ok THEN r ELSE DeriveAll(r, Tail(items))

\* the signatures mappings handed to derive_all_keys: at most MaxItems
\* items, the levels distinct
MaxItems == 2
SignatureItems ==
    {<<>>} \cup {<< <<l, s>> >> : l \in CallLevels, s \in Signatures} \cup
    {<< <<ls[1], "sigB">>, <<ls[2], "sigA">> >> :
        ls \in {x \in CallLevels \X CallLevels : x[1] # x[2]}}

\* BlockDriveRecovery.derive_all_keys(signatures)
DeriveAllKeys ==
    \E items \in SignatureItems :
        LET r == DeriveAll([keys |-> keys, decryptors |-> decryptors], items)
        IN  /\ call.op = "none"
            /\ sdk = "blockdrive_recovery"
            /\ keys' = r.keys
            /\ decryptors' = r.decryptors
            /\ call' = [op |-> "derive_all_keys", gen |-> <<>>,
                        args |-> [signatures |-> items],
                        out |-> Ok(r.ok, <<"derive_key">>)]
            /\ UNCHANGED <<crypto, sdk, outfile>>

\* BlockDriveRecovery.recover_file(content_cid, proof_cid, security_level,
\* storage_provider) of blockdrive_recovery
CallRecRecoverFile ==
    \E level \in SecurityLevels, g \in RecGens :
        LET store == RecGenStore(g)
        IN  /\ call.op = "none"
            /\ sdk = "blockdrive_recovery"
            /\ call' = [op |-> "blockdrive_recovery.recover_file", gen |-> g,
                        args |-> [security_level |-> level, env |-> store,
                                  expected_hash |-> None,
                                  key |-> decryptors[level]],
                        out |-> RecRecoverFile(decryptors, store, level, g.provider)]
            /\ UNCHANGED instance

Next ==
    \/ AddSignature
    \/ CallRecoverFile
    \/ DeriveKeyFromSignature
    \/ DeriveAllKeys
    \/ CallRecRecoverFile
    \/ Return
Spec == Init /\ [][Next]_vars

\* ------------------------------------------------ blockdrive_recovery/cli.py
\* bytes.fromhex(hex_str) after an optional "0x" is cut off: a hex string
\* is <<"hexstr", bytes, prefix>>
BytesFromHex(s) ==
    IF s[1] = "hexstr" THEN Ok(s[2], <<>>)
    ELSE Raise("ValueError", "non-hexadecimal number found in fromhex() arg", <<>>)

\* how a run of main ends: the exit code, what it printed last, the file
\* at the output path and the RecoveryResult it got (NoResult: none)
NoResult == [some |-> FALSE, result |-> <<>>]
Exit(code, printed, file, result) ==
    [exit_code |-> code, printed |-> printed, outfile |-> file, result |-> result]

\* the signature part of main: where the signature comes from and what is
\* there.  exc: the exception raised while it was read ("": none);
\* uncaught: the exception is not handled by main
GetSignature(args, input) ==
    CASE args.source = "signature" ->
            IF input.readable THEN [exc |-> "", uncaught |-> FALSE, signature |-> input.bytes,
                                    printed |-> <<>>]
            ELSE [exc |-> "FileNotFoundError", uncaught |-> FALSE, signature |-> "",
                  printed |-> <<"Error reading signature file: ", "No such file or directory">>]
      [] args.source = "sig_hex" ->
            LET decoded == BytesFromHex(input.text)
            IN  IF decoded.exc = ""
                THEN [exc |-> "", uncaught |-> FALSE, signature |-> decoded.val, printed |-> <<>>]
                ELSE [exc |-> decoded.exc, uncaught |-> FALSE, signature |-> "",
                      printed |-> <<"Invalid hex signature: ", decoded.msg>>]
      [] args.source = "sig_base64" ->
            LET decoded == B64Decode(JStr(input.text))
            IN  IF decoded.exc = ""
                THEN [exc |-> "", uncaught |-> FALSE, signature |-> decoded.val, printed |-> <<>>]
                ELSE [exc |-> decoded.exc, uncaught |-> FALSE, signature |-> "",
                      printed |-> <<"Invalid base64 signature: ", decoded.msg>>]
      [] OTHER ->
            \* prompt_for_signature: input() until something decodes, or
            \* standard input ends
            IF input.eof THEN [exc |-> "EOFError", uncaught |-> TRUE, signature |-> "",
                               printed |-> <<"Traceback", "EOFError">>]
            ELSE [exc |-> "", uncaught |-> FALSE, signature |-> input.bytes, printed |-> <<>>]

\* f"{result.file_size:,}" in the summary main prints: a number formats, a
\* string (a fileSize the metadata gave as text) raises ValueError
Groupable(file_size) == file_size[1] = "num"

\* the branch of main that calls the recovery: recovery is the
\* BlockDriveRecovery main built (its decryptors)
CliRecover(recovery, args, store, chain) ==
    IF args.verify_onchain /\ args.vault_owner /\ args.file_id
    THEN RecoverWithVerification(recovery, store, chain, args.level, args.provider).val
    ELSE IF args.metadata_cid
    THEN RecoverWithMetadata(recovery, store, args.level, args.provider).val
    ELSE RecRecoverFile(recovery, store, args.level, args.provider).val

\* the end of main, writing the output file before it looks at
\* result.success
WriteOutput_WritesFirst(args, existing, result) ==
    IF ~args.output_writable
    THEN Exit(1, <<"Traceback", "PermissionError">>, existing,
              [some |-> TRUE, result |-> result])
    ELSE IF ~result.success
    THEN Exit(1, <<"Recovery failed: ">> \o result.error.text, File(result.data),
              [some |-> TRUE, result |-> result])
    ELSE IF ~args.quiet /\ ~Groupable(result.file_size)
    THEN Exit(1, <<"Traceback", "ValueError">>, File(result.data),
              [some |-> TRUE, result |-> result])
    ELSE Exit(0, IF args.quiet THEN <<>> ELSE <<"RECOVERY SUCCESSFUL">>,
              File(result.data), [some |-> TRUE, result |-> result])

\* the end of main, from the test of result.success on: the write of the
\* output file, the summary, the exit.  An exception main does not handle
\* ends the process with a traceback and exit code 1: the output path
\* cannot be opened, or (after the write) the summary cannot be formatted
WriteOutput(args, existing, result) ==
    IF ~result.success
    THEN Exit(1, <<"Recovery failed: ">> \o result.error.text, existing,
              [some |-> TRUE, result |-> result])
    ELSE IF ~args.output_writable
    THEN Exit(1, <<"Traceback", "PermissionError">>, existing,
              [some |-> TRUE, result |-> result])
    ELSE IF ~args.quiet /\ ~Groupable(result.file_size)
    THEN Exit(1, <<"Traceback", "ValueError">>, File(result.data),
              [some |-> TRUE, result |-> result])
    ELSE Exit(0, IF args.quiet THEN <<>> ELSE <<"RECOVERY SUCCESSFUL">>,
              File(result.data), [some |-> TRUE, result |-> result])

\* main(): args the parsed arguments (source: which of --signature,
\* --sig-hex, --sig-base64 was given, "prompt" for none), input what the
\* signature source holds, store and chain what the stores and the RPC
\* node answer, existing the file at the output path before the run.
\* main builds its own BlockDriveRecovery(), with empty caches
CliMain(args, input, store, chain, existing) ==
    LET got == GetSignature(args, input)
        derived == DeriveInto([keys |-> EmptyCache, decryptors |-> EmptyCache],
                              got.signature, args.level)
    IN  IF got.exc # "" THEN Exit(1, got.printed, existing, NoResult)
        ELSE IF got.signature = ""
        THEN Exit(1, <<"No signature provided">>, existing, NoResult)
        ELSE IF ~derived.ok
        THEN Exit(1, <<"Failed to derive encryption key">>, existing, NoResult)
        ELSE IF args.verify_onchain /\ (~args.vault_owner \/ ~args.file_id)
        THEN Exit(1, <<"Error: --verify-onchain requires --vault-owner and --file-id">>,
                  existing, NoResult)
        ELSE WriteOutput(args, existing, CliRecover(derived.decryptors, args, store, chain))

\* ------------------------------------------------------------------ the command line
\* what a run of the command line is given
Sources == {"signature", "sig_hex", "sig_base64", "prompt"}
InputKinds == {"good", "bad", "empty"}
MetadataKinds == {"none", "ok", "fail", "undecryptable", "size_text"}
ChainKinds == {"unavailable", "match", "mismatch", "missing", "rpc_error", "bad_program",
               "bad_file_id", "bad_level_byte"}
StoreKinds == {"ok", "content_fail", "proof_500", "commitment_other", "short"}
CliDefaults ==
    [source |-> "sig_hex", input |-> "good", sig |-> "sigA", level |-> 1,
     verify_onchain |-> FALSE, vault_owner |-> FALSE, file_id |-> FALSE,
     metadata |-> "none", chain |-> "unavailable", store |-> "ok", writable |-> TRUE,
     quiet |-> FALSE]
\* runs that differ in where the signature comes from and what is there
SignatureRuns ==
    {[CliDefaults EXCEPT !.source = s, !.input = i] : s \in Sources, i \in InputKinds}
\* runs of recover_file and recover_with_metadata over intact stores
PlainRuns ==
    UNION {{[CliDefaults EXCEPT !.sig = k[1], !.level = k[2], !.metadata = md,
                                !.writable = f[1], !.quiet = f[2]] :
                k \in Signatures \X SealLevels, f \in {x \in BOOLEAN \X BOOLEAN : x[1] \/ ~x[2]}} :
           md \in MetadataKinds}
\* runs over stores that fail or hold something else
StoreRuns ==
    {[CliDefaults EXCEPT !.store = st, !.metadata = md] :
        st \in StoreKinds, md \in {"none", "ok"}}
\* runs with --verify-onchain
VerifyRuns ==
    UNION {{[CliDefaults EXCEPT !.verify_onchain = TRUE, !.vault_owner = o[1], !.file_id = o[2],
                                !.chain = IF o[1] /\ o[2] THEN c ELSE "unavailable",
                                !.store = st] :
                o \in BOOLEAN \X BOOLEAN, c \in ChainKinds} :
           st \in {"ok", "proof_500", "commitment_other"}}
CliGens == SignatureRuns \cup PlainRuns \cup StoreRuns \cup VerifyRuns

CliInput(g) ==
    [readable |-> g.input # "bad", eof |-> g.input = "bad",
     bytes |-> IF g.input = "good" THEN g.sig ELSE "",
     text |-> CASE g.input = "bad" -> Lit("not an encoding!")
                [] g.source = "sig_hex" ->
                      <<"hexstr", IF g.input = "good" THEN g.sig ELSE "", "0x">>
                [] OTHER -> B64Encode(IF g.input = "good" THEN g.sig ELSE "")]
CliRecGen(g) ==
    [content |-> IF g.store = "content_fail" THEN "fail" ELSE "ok",
     provider |-> "filebase", fb |-> "none",
     proof |-> CASE g.store = "proof_500" -> "http_500"
                 [] g.store = "commitment_other" -> "commitment_other"
                 [] OTHER -> "ok",
     seal_sig |-> "sigA", seal_level |-> 1,
     plaintext |-> IF g.store \in {"short", "other_file"} THEN << <<"p", 0>> >> ELSE LongPlain]
\* the metadata object the stores hold for the metadata CID
MetadataBytes(key, file_size) ==
    JsonDumps(JDict(<<
        <<"encryptedMetadata",
          JStr(B64Encode(GcmEncrypt(key, Nonce(3),
              JsonDumps(JDict(<< <<"fileName", JStr(Lit("report.pdf"))>>,
                                 <<"fileSize", file_size>> >>)))))>>,
        <<"metadataIv", JStr(B64Encode(Nonce(3)))>> >>))
CliStore(g) ==
    LET s == RecGenStore(CliRecGen(g))
        key == RecOwnerKey(IF g.metadata = "undecryptable" THEN "sigB" ELSE "sigA", 1)
    IN  [filebase |-> s.filebase, gateway |-> s.gateway, r2 |-> s.r2, r2_again |-> s.r2,
         metadata |->
            [gateway |-> [u \in ContentUrls |->
                            IF g.metadata = "fail" THEN HttpStatus("404")
                            ELSE HttpOk(MetadataBytes(key,
                                    IF g.metadata = "size_text" THEN JStr(Lit("2 KB"))
                                    ELSE JNum(LongPlainLen)))],
             filebase |-> s.filebase]]
CliChain(g) ==
    LET file == RecFile(CliRecGen(g))
        level == [raw |-> IF g.chain = "bad_level_byte" THEN 3 ELSE 0, size |-> 300]
        account == GenAccountFull("blockdrive_recovery", level,
                                  IF g.chain = "mismatch" THEN ChainCritical
                                  ELSE file.critical_bytes)
    IN  [available |-> g.chain # "unavailable",
         program_ok |-> g.chain # "bad_program",
         resp |-> CASE g.chain = "missing" -> RpcNone
                    [] g.chain = "rpc_error" -> RpcError
                    [] OTHER -> RpcValue(account),
         owner |-> OwnerAddress,
         file_id_ok |-> g.chain # "bad_file_id"]

\* the file a previous run left at the output path
OldFile == File(<< <<"p", 8>> >>)

CliInit ==
    /\ sdk = "blockdrive_recovery"
    /\ crypto = EmptyCache
    /\ keys = EmptyCache
    /\ decryptors = EmptyCache
    /\ outfile \in {NoFile, OldFile}
    /\ call = NoCall

\* one run of the blockdrive-recover command
CallMain ==
    /\ call.op = "none"
    /\ \E g \in CliGens :
        \E input \in {CliInput(g)}, store \in {CliStore(g)}, chain \in {CliChain(g)} :
            LET args == [source |-> g.source, level |-> g.level, provider |-> "filebase",
                         verify_onchain |-> g.verify_onchain, vault_owner |-> g.vault_owner,
                         file_id |-> g.file_id, metadata_cid |-> g.metadata # "none",
                         output_writable |-> g.writable, quiet |-> g.quiet]
                r == CliMain(args, input, store, chain, outfile)
            IN  /\ outfile' = r.outfile
                /\ call' = [op |-> "main", gen |-> g,
                            args |-> [args |-> args, existing |-> outfile],
                            out |-> Ok(r, <<>>)]
                /\ UNCHANGED <<crypto, keys, decryptors, sdk>>

CliNext ==
    \/ CallMain
    \/ Return
CliSpec == CliInit /\ [][CliNext]_vars

\* ------------------------------------------------------------------ verified recovery
\* what a recover_with_verification call meets: base, what the stores hold
\* at the first proof download; again, what R2 answers at the second (the
\* same, the proof of another file of the owner with that file's content
\* at the gateways, or an error); account, what the chain holds for
\* (vault_owner, file_id); verifier, whether the Solana packages are there
\* and whether building the verifier or the RPC call raises
VerifyBases == {"ok", "content_fail", "proof_500", "commitment_other"}
AgainKinds == {"same", "other_file", "http_500"}
AccountKinds == {"match", "mismatch", "missing", "bad_level_byte"}
VerifierKinds == {"ok", "unavailable", "bad_program", "bad_file_id", "rpc_error"}
VerifyGens ==
    {g \in [base : VerifyBases, again : AgainKinds, account : AccountKinds,
            verifier : VerifierKinds] :
        g.again # "same" => g.base = "ok"}
VerifiedFile == RecFile(CliRecGen([store |-> "ok"]))
OtherFile == RecFile(CliRecGen([store |-> "other_file"]))
VerifyStore(g) ==
    LET s == RecGenStore(CliRecGen([store |-> g.base]))
    IN  [filebase |-> s.filebase,
         gateway |-> IF g.again = "other_file"
                     THEN RecGenStore(CliRecGen([store |-> g.again])).gateway ELSE s.gateway,
         r2 |-> s.r2,
         r2_again |-> CASE g.again = "other_file" ->
                             RecGenStore(CliRecGen([store |-> g.again])).r2
                        [] g.again = "http_500" -> HttpStatus("500")
                        [] OTHER -> s.r2]
VerifyChain(g) ==
    LET account == GenAccountFull("blockdrive_recovery",
                                  [raw |-> IF g.account = "bad_level_byte" THEN 3 ELSE 0,
                                   size |-> 300],
                                  IF g.account = "mismatch" THEN ChainCritical
                                  ELSE VerifiedFile.critical_bytes)
    IN  [available |-> g.verifier # "unavailable",
         program_ok |-> g.verifier # "bad_program",
         resp |-> CASE g.verifier = "rpc_error" -> RpcError
                    [] g.account = "missing" -> RpcNone
                    [] OTHER -> RpcValue(account),
         owner |-> OwnerAddress,
         file_id_ok |-> g.verifier # "bad_file_id"]

VerifyInit ==
    /\ sdk = "blockdrive_recovery"
    /\ crypto = EmptyCache
    /\ keys = EmptyCache
    /\ decryptors = EmptyCache
    /\ outfile = NoFile
    /\ call = NoCall

\* BlockDriveRecovery.recover_with_verification(content_cid, proof_cid,
\* security_level, vault_owner, file_id)
CallRecoverWithVerification ==
    /\ call.op = "none"
    /\ \E level \in SealLevels, g \in VerifyGens :
        \E store \in {VerifyStore(g)}, chain \in {VerifyChain(g)} :
            /\ call' = [op |-> "recover_with_verification", gen |-> g,
                        args |-> [security_level |-> level, store |-> store, chain |-> chain,
                                  key |-> decryptors[level]],
                        out |-> RecoverWithVerification(decryptors, store, chain, level,
                                                        "filebase")]
            /\ UNCHANGED instance

VerifyNext ==
    \/ DeriveKeyFromSignature
    \/ CallRecoverWithVerification
    \/ Return
VerifySpec == VerifyInit /\ [][VerifyNext]_vars

\* ------------------------------------------------------------------ recover_file_async
\* recover_file_async looking at the proof result before the content result
RecoverFileAsync_ProofFirst(key, content_result, proof_result, expected_hash, st) ==
    LET parsed == ParseProofJson(proof_result.data)
        st3 == st \o <<"parse_proof_json">>
    IN  IF ~proof_result.success
        THEN Ok(FailureResult(<<"Failed to download proof: ">> \o proof_result.error.text), st)
        ELSE IF ~content_result.success
        THEN Ok(FailureResult(<<"Failed to download content: ">> \o content_result.error.text), st)
        ELSE IF parsed.exc # "" THEN Raise(parsed.exc, parsed.msg, st3)
        ELSE DecryptWithProof(key, content_result.data, parsed.val, expected_hash, st3)

\* BlockDriveRecovery.recover_file_async from the return of asyncio.gather
\* on: content_result and proof_result are what the two tasks returned, st
\* the steps up to there
RecoverFileAsync(key, content_result, proof_result, expected_hash, st) ==
    LET parsed == ParseProofJson(proof_result.data)
        st3 == st \o <<"parse_proof_json">>
    IN  IF ~content_result.success
        THEN Ok(FailureResult(<<"Failed to download content: ">> \o content_result.error.text), st)
        ELSE IF ~proof_result.success
        THEN Ok(FailureResult(<<"Failed to download proof: ">> \o proof_result.error.text), st)
        ELSE IF parsed.exc # "" THEN Raise(parsed.exc, parsed.msg, st3)
        ELSE DecryptWithProof(key, content_result.data, parsed.val, expected_hash, st3)

\* a task of asyncio.gather that has not returned yet
Pending == NoResult
Done(result) == [some |-> TRUE, result |-> result]

\* BlockDriveRecovery(signatures=...) of blockdrive with no signature or
\* with one signature for every level
AsyncInit ==
    /\ sdk = "blockdrive"
    /\ crypto \in {EmptyCache} \cup
                  {[l \in SecurityLevels |-> DeriveKey(sig, l)] : sig \in Signatures}
    /\ keys = EmptyCache
    /\ decryptors = EmptyCache
    /\ outfile = NoFile
    /\ call = NoCall

\* await recovery.recover_file_async(content_cid, proof_cid, security_level,
\* expected_hash) up to the await of asyncio.gather: _get_crypto raises before
\* any task exists; otherwise both downloads are in flight
CallRecoverFileAsync ==
    /\ call.op = "none"
    /\ \E level \in SecurityLevels, g \in OrchGens, h \in OrchHashKinds :
        LET env == GenEnv(g)
            expected_hash == GenExpectedHash(h, g.plaintext)
            raised == crypto[level] = NoKey
        IN  /\ call' = [op |-> "recover_file_async", gen |-> g,
                        args |-> [security_level |-> level, env |-> env,
                                  expected_hash |-> expected_hash, key |-> crypto[level],
                                  content |-> Pending, proof |-> Pending,
                                  returned |-> raised],
                        out |-> IF raised
                                THEN Raise("ValueError", "No key derived for security level",
                                           <<"get_crypto">>)
                                ELSE Ok(<<>>, <<"get_crypto">>)]
            /\ UNCHANGED instance

InGather ==
    /\ call.op = "recover_file_async"
    /\ ~call.args.returned

\* the download_ipfs(content_cid) task returns
ContentTaskReturns ==
    /\ InGather
    /\ ~call.args.content.some
    /\ call' = [call EXCEPT !.args.content = Done(DownloadIpfs(call.args.env.content)),
                            !.out.steps = @ \o <<"download_content">>]
    /\ UNCHANGED instance

\* the download_proof_with_fallback(proof_cid) task returns
ProofTaskReturns ==
    /\ InGather
    /\ ~call.args.proof.some
    /\ call' = [call EXCEPT
                  !.args.proof = Done(DownloadProofWithFallback(call.args.env.r2,
                                                                call.args.env.proof_ipfs)),
                  !.out.steps = @ \o <<"download_proof">>]
    /\ UNCHANGED instance

\* asyncio.gather returns once both tasks have, with the results in the
\* order of its arguments; the rest of recover_file_async runs
GatherReturns ==
    /\ InGather
    /\ call.args.content.some
    /\ call.args.proof.some
    /\ call' = [call EXCEPT
                  !.args.returned = TRUE,
                  !.out = RecoverFileAsync(call.args.key, call.args.content.result,
                                           call.args.proof.result, call.args.expected_hash,
                                           call.out.steps)]
    /\ UNCHANGED instance

\* the caller gets the result of a coroutine only when it has returned
AsyncReturn ==
    /\ call.op = "recover_file_async" => call.args.returned
    /\ Return

AsyncNext ==
    \/ CallRecoverFileAsync
    \/ ContentTaskReturns
    \/ ProofTaskReturns
    \/ GatherReturns
    \/ AsyncReturn
AsyncSpec == AsyncInit /\ [][AsyncNext]_vars

\* ------------------------------------------------ examples/web_integration.py
\* two requests in flight against the module-level recovery_sdk
Requests == {1, 2}
\* the body of a request: the owner's signature for the level, and the CIDs
\* of a file the platform sealed with the key of that signature
WebGens == [level : SealLevels, signatures : [Requests -> Signatures]]
RequestStore(signature, level) ==
    RecGenStore([content |-> "ok", provider |-> "filebase", fb |-> "none", proof |-> "ok",
                 seal_sig |-> signature, seal_level |-> level, plaintext |-> LongPlain])

WebInit ==
    /\ sdk = "blockdrive_recovery"
    /\ crypto = EmptyCache
    /\ keys = EmptyCache
    /\ decryptors = EmptyCache
    /\ outfile = NoFile
    /\ call = NoCall

\* two POST /recover requests reach recover_file_from_request
RequestsArrive ==
    /\ call.op = "none"
    /\ \E g \in WebGens :
          call' = [op |-> "recover_file_from_request", gen |-> g,
                   args |-> [r \in Requests |->
                               [signature |-> g.signatures[r], level |-> g.level,
                                at |-> "derive_key", key |-> NoKey, decryptor |-> NoKey,
                                result |-> NoResult]],
                   out |-> Ok(<<>>, <<>>)]
    /\ UNCHANGED instance

InRequest(r, at) ==
    /\ call.op = "recover_file_from_request"
    /\ call.args[r].at = at

\* derive_key_from_signature of request r up to self._keys[level] = key
StoreKey(r) ==
    /\ InRequest(r, "derive_key")
    /\ LET derived == KeyDerivationDeriveKey(call.args[r].signature, call.args[r].level)
       IN  /\ keys' = [keys EXCEPT ![call.args[r].level] = derived.val]
           /\ call' = [call EXCEPT !.args[r].key = derived.val,
                                   !.args[r].at = "build_decryptor"]
    /\ UNCHANGED <<crypto, decryptors, sdk, outfile>>

\* self._decryptors[level] = AESDecryptor(key); return True
StoreDecryptor(r) ==
    /\ InRequest(r, "build_decryptor")
    /\ decryptors' = [decryptors EXCEPT
                        ![call.args[r].level] = AESDecryptorInit(call.args[r].key).val]
    /\ call' = [call EXCEPT !.args[r].at = "recover_file"]
    /\ UNCHANGED <<crypto, keys, sdk, outfile>>

\* recovery_sdk.recover_file(content_cid, proof_cid, level, provider,
\* verify_commitment=True) of request r: it reads self._decryptors[level]
\* once and works with that decryptor
RequestRecoverFile(r) ==
    /\ InRequest(r, "recover_file")
    /\ call' = [call EXCEPT
                  !.args[r].decryptor = decryptors[call.args[r].level],
                  !.args[r].result =
                      [some |-> TRUE,
                       result |-> RecRecoverFile(decryptors,
                                                 RequestStore(call.args[r].signature,
                                                              call.args[r].level),
                                                 call.args[r].level, "filebase")],
                  !.args[r].at = "done"]
    /\ UNCHANGED instance

\* both responses are sent
RequestsReturn ==
    /\ call.op = "recover_file_from_request"
    /\ \A r \in Requests : call.args[r].at = "done"
    /\ Return

WebNext ==
    \/ RequestsArrive
    \/ \E r \in Requests : StoreKey(r)
    \/ \E r \in Requests : StoreDecryptor(r)
    \/ \E r \in Requests : RequestRecoverFile(r)
    \/ RequestsReturn
WebSpec == WebInit /\ [][WebNext]_vars

\* ------------------------------------------------------------------ batch recovery
\* str(output_dir / filename) -> bytes of the files of the output directory
EmptyDir == <<>>
\* f"file_{record.file_id}"
DefaultFileName(record) == JStr(<<"lit", "file_", ToString(record.file_id)>>)

\* BlockDriveRecovery.recover_file_record(record, output_dir); cache is
\* self._crypto, env what the stores answer for the record's CIDs, dir the
\* files of output_dir. The value has the result (or the exception that
\* leaves the method) and the files of the directory afterwards
RecoverFileRecord(cache, record, env, dir) ==
    LET Finished(meta, result) ==
            [out |-> result,
             dir |-> IF result.exc = "" /\ result.val.success
                     THEN DictSet(dir, DictGet(meta[2], "fileName", DefaultFileName(record)),
                                  result.val.data)
                     ELSE dir]
        Recovered(meta, result) ==
            IF result.exc \in CaughtByValueOrKeyError
            THEN [out |-> Ok(FailureResult(<<"Recovery failed: ">> \o ExcStr(result)),
                             result.steps),
                  dir |-> dir]
            ELSE Finished(meta, result)
        Loaded(meta, st) ==
            IF meta.exc # ""
            THEN [out |-> Ok(FailureResult(<<"Recovery failed: ">> \o ExcStr(meta)), st),
                  dir |-> dir]
            ELSE IF ~IsDict(meta.val)
            THEN [out |-> Raise("AttributeError", "object has no attribute 'get'", st),
                  dir |-> dir]
            ELSE IF ~(Truthy(DictGet(meta.val[2], "contentCid", JStr(EmptyStr))) /\
                      Truthy(DictGet(meta.val[2], "proofCid", JStr(EmptyStr))))
            THEN [out |-> Ok(FailureResult(<<"Metadata missing contentCid or proofCid">>), st),
                  dir |-> dir]
            ELSE Recovered(meta.val, RecoverFile(cache[record.security_level], env, None))
        Downloaded(meta_result) ==
            IF ~meta_result.success
            THEN [out |-> Ok(FailureResult(<<"Failed to download metadata: ">> \o
                                           meta_result.error.text), <<"download_metadata">>),
                  dir |-> dir]
            ELSE Loaded(ParseProofJson(meta_result.data), <<"download_metadata", "json_loads">>)
    IN  IF cache[record.security_level] = NoKey
        THEN [out |-> Ok(FailureResult(<<"No key for security level">>), <<>>), dir |-> dir]
        ELSE Downloaded(DownloadIpfsSync(env.metadata))

\* the loop of recover_all_files from record i on; results: the list so far
RECURSIVE RecoverAllLoop(_, _, _, _, _, _)
RecoverAllLoop(cache, records, envs, i, results, dir) ==
    LET Appended(r) ==
            IF r.out.exc # ""
            THEN [out |-> Raise(r.out.exc, r.out.msg, <<i>>), dir |-> r.dir]
            ELSE RecoverAllLoop(cache, records, envs, i + 1, Append(results, r.out.val), r.dir)
    IN  IF i > Len(records) THEN [out |-> Ok(results, <<>>), dir |-> dir]
        ELSE Appended(RecoverFileRecord(cache, records[i], envs[i], dir))

\* BlockDriveRecovery.recover_all_files(output_dir); fetched is what
\* fetch_all_file_records(self._owner_pubkey) gives
RecoverAllFiles(cache, solana_available, owner_pubkey_set, fetched, envs, dir) ==
    IF ~solana_available
    THEN [out |-> Ok(<<FailureResult(<<"Solana dependencies not installed">>)>>, <<>>),
          dir |-> dir]
    ELSE IF ~owner_pubkey_set
    THEN [out |-> Ok(<<FailureResult(<<"owner_pubkey is required for recover_all_files">>)>>,
                     <<>>),
          dir |-> dir]
    ELSE IF fetched.exc # "" THEN [out |-> Raise(fetched.exc, fetched.msg, <<>>), dir |-> dir]
    ELSE RecoverAllLoop(cache, fetched.val, envs, 1, <<>>, dir)

\* ---- the owner's records and what the stores hold for them
MaxRecords == 2
RecordKinds == {"ok", "ok_named", "no_key", "meta_fail", "meta_not_json", "meta_not_object",
                "meta_no_cids", "content_fail", "proof_fail", "proof_hash_wrong",
                "proof_not_json", "content_truncated"}
BatchGens ==
    {g \in [available : BOOLEAN, owner : BOOLEAN, rpc_error : BOOLEAN,
            kinds : UNION {[1..n -> RecordKinds] : n \in 0..MaxRecords}] :
        (~g.available \/ ~g.owner \/ g.rpc_error) => g.kinds = <<>>}
\* the FileRecord of the i-th account: files are sealed at level 1, except
\* the one of a level the instance has no key for
BatchRecord(kind, i) ==
    [file_id |-> i, security_level |-> IF kind = "no_key" THEN 2 ELSE 1]
BatchOrchGen(kind) ==
    [content |-> CASE kind = "content_fail" -> "fail"
                   [] kind = "content_truncated" -> "truncated"
                   [] OTHER -> "ok",
     proof |-> IF kind = "proof_fail" THEN "fail" ELSE "r2",
     bytes |-> IF kind = "proof_not_json" THEN "not_json" ELSE "dict",
     version |-> 2, plaintext |-> LongPlain, payload |-> "exact",
     tamper |-> IF kind = "proof_hash_wrong" THEN "hash_wrong" ELSE "none"]
BatchMetadata(kind) ==
    LET cids == << <<"contentCid", JStr(Lit("content cid"))>>,
                   <<"proofCid", JStr(Lit("proof cid"))>> >>
    IN  CASE kind = "meta_fail" -> AllFail
          [] kind = "meta_not_json" -> FirstServes(<< <<"p", 0>> >>)
          [] kind = "meta_not_object" -> FirstServes(JsonDumps(JList(<<>>)))
          [] kind = "meta_no_cids" ->
                FirstServes(JsonDumps(JDict(<< <<"contentCid", JStr(Lit("content cid"))>> >>)))
          [] kind = "ok_named" ->
                FirstServes(JsonDumps(JDict(cids \o
                                            << <<"fileName", JStr(Lit("report.pdf"))>> >>)))
          [] OTHER -> FirstServes(JsonDumps(JDict(cids)))
BatchEnv(kind) ==
    LET env == GenEnv(BatchOrchGen(kind))
    IN  [content |-> env.content, metadata |-> BatchMetadata(kind),
         proof_ipfs |-> env.proof_ipfs, r2 |-> env.r2]
BatchRecords(g) == [i \in 1..Len(g.kinds) |-> BatchRecord(g.kinds[i], i)]
BatchEnvs(g) == [i \in 1..Len(g.kinds) |-> BatchEnv(g.kinds[i])]
BatchFetched(g) ==
    IF g.rpc_error THEN Raise("RPCException", "rpc", <<>>) ELSE Ok(BatchRecords(g), <<>>)

\* BlockDriveRecovery(signatures={1: signature}, owner_pubkey=...)
BatchInit ==
    /\ sdk = "blockdrive"
    /\ crypto = [l \in SecurityLevels |-> IF l = 1 THEN OwnerKey ELSE NoKey]
    /\ keys = EmptyCache
    /\ decryptors = EmptyCache
    /\ outfile = EmptyDir
    /\ call = NoCall

\* recovery.recover_all_files(output_dir); outfile holds the files of
\* output_dir
CallRecoverAllFiles ==
    /\ call.op = "none"
    /\ \E g \in BatchGens :
        \E r \in {RecoverAllFiles(crypto, g.available, g.owner, BatchFetched(g),
                                  BatchEnvs(g), outfile)} :
            /\ outfile' = r.dir
            /\ call' = [op |-> "recover_all_files", gen |-> g,
                        args |-> [records |-> BatchRecords(g), envs |-> BatchEnvs(g),
                                  dir |-> outfile],
                        out |-> r.out]
            /\ UNCHANGED <<crypto, keys, decryptors, sdk>>

BatchNext ==
    \/ CallRecoverAllFiles
    \/ Return
BatchSpec == BatchInit /\ [][BatchNext]_vars

\* ------------------------------------------------------------------ claims
IsCall(op) == call.op = op
HasStep(step) == \E i \in 1..Len(call.out.steps) : call.out.steps[i] = step
DecryptionSteps ==
    {"b64decode_encryptedCriticalBytes", "b64decode_encryptionIv", "aesgcm_decrypt_proof"}
\* the record carries a proofHash and the recomputed hash differs from it
ProofHashDiffers(p) ==
    /\ IsDict(p)
    /\ ComputeProofHash(p).exc = ""
    /\ HasKey(p[2], "proofHash")
    /\ Lookup(p[2], "proofHash") # JStr(ComputeProofHash(p).val)
\* the record carries the proof hash of its covered fields
ProofHashValid(p) ==
    /\ IsDict(p)
    /\ ComputeProofHash(p).exc = ""
    /\ HasKey(p[2], "proofHash")
    /\ Lookup(p[2], "proofHash") = JStr(ComputeProofHash(p).val)
\* the record's payload is the producer's seal and its nonce is intact
SealIntact(g, p) ==
    /\ IsDict(p)
    /\ HasKey(p[2], "encryptedCriticalBytes")
    /\ Lookup(p[2], "encryptedCriticalBytes") =
          JStr(B64Encode(GcmEncrypt(OwnerKey, SealNonce, SealedPayload(ProofFile(g), g.payload))))
    /\ HasKey(p[2], "encryptionIv")
    /\ Lookup(p[2], "encryptionIv") = JStr(B64Encode(SealNonce))

\* an expected_hash is supplied: a non-empty string (None and "" are not)
Supplied(expected_hash) == IsStr(expected_hash) /\ expected_hash[2] # EmptyStr
\* the proof record a recover_file call downloaded and parsed
DownloadedProof == GenProof(call.gen)
\* both downloads of a recover_file call succeeded
DownloadsSucceeded ==
    /\ DownloadIpfsSync(call.args.env.content).success
    /\ DownloadProofWithFallbackSync(call.args.env.r2, call.args.env.proof_ipfs).success
DownloadedContent == DownloadIpfsSync(call.args.env.content).data
DownloadedProofBytes ==
    DownloadProofWithFallbackSync(call.args.env.r2, call.args.env.proof_ipfs).data
\* the errors of verify_and_decrypt_proof that C1 lists
ListedProofErrors == {MsgIntegrity, MsgDecryptProof, MsgTooShort, MsgCommitmentMismatch}
\* a failure C1 lists happens in the call: the proof is not parseable JSON,
\* or verify_and_decrypt_proof fails with one of its four errors, or
\* decrypt_file fails (commitment, GCM authentication, content hash)
ListedFailure ==
    /\ DownloadsSucceeded
    /\ \/ ParseProofJson(DownloadedProofBytes).exc # ""
       \/ /\ IsDict(ParseProofJson(DownloadedProofBytes).val)
          /\ LET proof == ParseProofJson(DownloadedProofBytes).val
                 ex == VerifyAndDecryptProof(call.args.key, proof)
             IN  \/ (ex.exc = "ValueError" /\ ex.msg \in ListedProofErrors)
                 \/ /\ ex.exc = ""
                    /\ DecryptFile(call.args.key, DownloadedContent, ex.val[1], ex.val[2],
                                   Lookup(proof[2], "commitment"),
                                   call.args.expected_hash).exc # ""

\* C1: with a key for the requested level, recover_file returns a
\* RecoveryResult and raises nothing when verify_and_decrypt_proof or
\* decrypt_file fails or the downloaded proof is not parseable JSON: the
\* result has success=false and a non-empty error string.
C1_RecoverFileNeverRaises ==
    (IsCall("recover_file") /\ call.args.key # NoKey /\ ListedFailure) =>
        /\ call.out.exc = ""
        /\ call.out.val.success = FALSE
        /\ call.out.val.error.some
        /\ ~TextEmpty(call.out.val.error.text)

SuccessSteps(expected_hash) ==
    <<"get_crypto", "download_content", "download_proof", "parse_proof_json",
      "compute_proof_hash", "proof_hash_check", "b64decode_encryptedCriticalBytes",
      "b64decode_encryptionIv", "aesgcm_decrypt_proof", "length_check",
      "commitment_check", "commitment_check", "reconstruct", "aesgcm_decrypt_file">>
    \o (IF Supplied(expected_hash) THEN <<"content_hash_check">> ELSE <<>>)
\* every check of the pipeline passes on the downloaded proof and content
AllChecksPass(key, proof, content, expected_hash, data) ==
    /\ ProofHashValid(proof)
    /\ LET sealed == B64Decode(Lookup(proof[2], "encryptedCriticalBytes"))
           iv == B64Decode(Lookup(proof[2], "encryptionIv"))
       IN  /\ sealed.exc = "" /\ iv.exc = ""
           /\ LET payload == GcmDecrypt(key, iv.val, sealed.val)
              IN  /\ payload.exc = ""
                  /\ Len(payload.val) >= CRITICAL_BYTES_LENGTH + FILE_IV_LENGTH
                  /\ JStr(Sha256Hex(SubSeq(payload.val, 1, CRITICAL_BYTES_LENGTH))) =
                        Lookup(proof[2], "commitment")
                  /\ LET file == GcmDecrypt(key,
                                    SubSeq(payload.val, CRITICAL_BYTES_LENGTH + 1,
                                           CRITICAL_BYTES_LENGTH + FILE_IV_LENGTH),
                                    SubSeq(payload.val, 1, CRITICAL_BYTES_LENGTH) \o content)
                     IN  /\ file.exc = ""
                         /\ file.val = data
                         /\ Supplied(expected_hash) => expected_hash = JStr(Sha256Hex(data))

\* C2: a RecoveryResult of recover_file with success=false has empty data
\* and verified=false; one with success=true has verified=true and the
\* proof's commitment, and comes only after proof-hash verification, payload
\* decryption, length check, commitment check, file decryption and (with an
\* expected_hash) the content-hash check all succeeded, in this order.
C2_ResultShape ==
    (IsCall("recover_file") /\ call.out.exc = "") =>
        LET r == call.out.val
        IN  /\ ~r.success => (r.data = <<>> /\ r.verified = FALSE)
            /\ r.success =>
                  /\ r.verified = TRUE
                  /\ call.gen.bytes = "dict"
                  /\ r.commitment = Lookup(DownloadedProof[2], "commitment")
                  /\ call.out.steps = SuccessSteps(call.args.expected_hash)
                  /\ AllChecksPass(call.args.key, DownloadedProof, DownloadedContent,
                                   call.args.expected_hash, r.data)
C2_Witness ==
    /\ IsCall("recover_file")
    /\ call.out.exc = ""
    /\ call.out.val.success
    /\ call.out.val.data = LongPlain
    /\ Supplied(call.args.expected_hash)
C2_WitnessFailure ==
    /\ IsCall("recover_file")
    /\ call.out.exc = ""
    /\ ~call.out.val.success
    /\ call.gen.tamper = "hash_wrong"
    /\ call.out.val.error.text = <<MsgIntegrity>>

\* C3: in verify_and_decrypt_proof a recomputed proof hash that differs from
\* the record's proofHash fails with the proof-integrity error, and neither
\* base64 decoding nor AES-GCM decryption of the payload has been attempted.
C3_HashCheckPrecedesDecryption ==
    (IsCall("verify_and_decrypt_proof") /\ ProofHashDiffers(call.args.proof)) =>
        /\ call.out.exc = "ValueError"
        /\ call.out.msg = MsgIntegrity
        /\ call.out.val = <<>>
        /\ \A s \in DecryptionSteps : ~HasStep(s)
C3_Witness ==
    /\ IsCall("verify_and_decrypt_proof")
    /\ call.gen.tamper = "commitment_other_stale"
    /\ call.args.key = OwnerKey
    /\ ProofHashDiffers(call.args.proof)
    /\ call.out.msg = MsgIntegrity

\* C4: verify_and_decrypt_proof with a key other than the sealing key, on a
\* record whose proof hash is valid, fails with the 'Failed to decrypt proof'
\* error and returns no critical bytes and no file nonce.
C4_WrongKeyRejected ==
    (/\ IsCall("verify_and_decrypt_proof")
     /\ ProofHashValid(call.args.proof)
     /\ SealIntact(call.gen, call.args.proof)
     /\ call.args.key # OwnerKey) =>
        /\ call.out.exc = "ValueError"
        /\ call.out.msg = MsgDecryptProof
        /\ call.out.val = <<>>
C4_Witness ==
    /\ IsCall("verify_and_decrypt_proof")
    /\ ProofHashValid(call.args.proof)
    /\ SealIntact(call.gen, call.args.proof)
    /\ call.args.key # OwnerKey
    /\ call.out.msg = MsgDecryptProof

\* C5: verify_and_decrypt_proof compares SHA-256(critical bytes) to the
\* record's commitment case-insensitively: with the first three checks
\* passed, the commitment-mismatch error is raised exactly when the
\* lowercased commitment differs from the digest, so an uppercase
\* commitment is accepted.
C5_CommitmentCaseInsensitive ==
    (/\ IsCall("verify_and_decrypt_proof")
     /\ HasStep("commitment_check")
     /\ IsStr(Lookup(call.args.proof[2], "commitment"))) =>
        LET commitment == Lookup(call.args.proof[2], "commitment")[2]
            dec == GcmDecrypt(call.args.key, SealNonce,
                              B64Decode(Lookup(call.args.proof[2], "encryptedCriticalBytes")).val)
            digest == Sha256Hex(PySlice(dec.val, 0, CRITICAL_BYTES_LENGTH))
        IN  /\ (StrLower(commitment) = digest) => call.out.exc = ""
            /\ (StrLower(commitment) # digest) => call.out.msg = MsgCommitmentMismatch

\* C6: for a version 1 or 2 proof sealed under K over
\* critical_bytes || file_iv (and possibly more bytes), with the matching
\* commitment and proof hash, verify_and_decrypt_proof with K returns
\* exactly (critical_bytes, file_iv).
C6_ExtractsCriticalBytesAndIv ==
    (/\ IsCall("verify_and_decrypt_proof")
     /\ call.gen.version \in {1, 2}
     /\ call.gen.tamper = "none"
     /\ call.gen.payload \in {"exact", "extra"}
     /\ call.args.key = OwnerKey) =>
        /\ call.out.exc = ""
        /\ call.out.val = <<ProofFile(call.gen).critical_bytes, ProofFile(call.gen).file_iv>>
        /\ Len(call.out.val[1]) = CRITICAL_BYTES_LENGTH
        /\ Len(call.out.val[2]) = FILE_IV_LENGTH
C6_Witness ==
    /\ IsCall("verify_and_decrypt_proof")
    /\ call.gen.version = 1
    /\ call.gen.tamper = "none"
    /\ call.gen.payload = "extra"
    /\ call.args.key = OwnerKey
    /\ call.out.exc = ""
    /\ call.out.val[2] = FileNonce

\* C7: round trip: decrypt_file on the remainder, the critical bytes, the
\* nonce and the commitment of AES-256-GCM-encrypt(K, N, P), on a
\* BlockDriveCrypto built with K, returns exactly P (lengths 0 and 1
\* included).
C7_RoundTrip ==
    (/\ IsCall("decrypt_file")
     /\ call.args.key = call.gen.fileKey
     /\ call.gen.content = "ok"
     /\ call.gen.file_iv = "ok"
     /\ call.gen.commitment = "match"
     /\ call.gen.expected_hash = "none") =>
        /\ call.out.exc = ""
        /\ call.out.val = call.gen.plaintext
C7_Witness ==
    /\ IsCall("decrypt_file")
    /\ call.args.key = call.gen.fileKey
    /\ call.gen.content = "ok"
    /\ call.gen.file_iv = "ok"
    /\ call.gen.commitment = "match"
    /\ call.gen.expected_hash = "none"
    /\ call.gen.plaintext = <<>>
    /\ call.args.encrypted_content = <<>>
    /\ call.out.exc = ""

\* C8: decrypt_file whose commitment argument is not SHA-256(critical_bytes)
\* fails with 'Commitment verification failed' before anything is
\* reconstructed or decrypted, and returns no plaintext, whatever the key,
\* nonce and remainder.
C8_CommitmentCheckedFirst ==
    (/\ IsCall("decrypt_file")
     /\ call.args.commitment # JStr(Sha256Hex(call.args.critical_bytes))) =>
        /\ call.out.exc = "ValueError"
        /\ call.out.msg = MsgCommitmentFailed
        /\ call.out.val = <<>>
        /\ call.out.steps = <<"commitment_check">>
C8_Witness ==
    /\ IsCall("decrypt_file")
    /\ call.gen.commitment = "zero"
    /\ call.gen.content = "ok"
    /\ call.args.key = call.gen.fileKey
    /\ call.out.msg = MsgCommitmentFailed

GcmOutcome(a) == GcmDecrypt(a.key, a.file_iv, a.critical_bytes \o a.encrypted_content)
CommitmentMatches(a) == a.commitment = JStr(Sha256Hex(a.critical_bytes))

\* C9: decrypt_file with an expected_hash supplied returns the plaintext only
\* if SHA-256(plaintext) equals it, and fails with 'Content hash verification
\* failed' when GCM authentication passed and the digest differs; with no
\* expected_hash the check is skipped and the outcome is decided by the
\* commitment check and the GCM decryption alone.
C9_ContentHashCheck ==
    IsCall("decrypt_file") =>
        LET a == call.args
        IN  /\ (Supplied(a.expected_hash) /\ call.out.exc = "") =>
                  a.expected_hash = JStr(Sha256Hex(call.out.val))
            /\ (/\ Supplied(a.expected_hash)
                /\ CommitmentMatches(a)
                /\ GcmOutcome(a).exc = ""
                /\ a.expected_hash # JStr(Sha256Hex(GcmOutcome(a).val))) =>
                  (call.out.exc = "ValueError" /\ call.out.msg = MsgContentHash)
            /\ ~Supplied(a.expected_hash) =>
                  /\ ~HasStep("content_hash_check")
                  /\ call.out.msg # MsgContentHash
                  /\ (call.out.exc = "") <=> (CommitmentMatches(a) /\ GcmOutcome(a).exc = "")
                  /\ (call.out.exc = "") => call.out.val = GcmOutcome(a).val
C9_Witness ==
    /\ IsCall("decrypt_file")
    /\ call.gen.expected_hash = "wrong"
    /\ CommitmentMatches(call.args)
    /\ GcmOutcome(call.args).exc = ""
    /\ call.out.msg = MsgContentHash

\* the proof hash of a record can be computed: it is a dict that has the
\* covered required fields
HashComputable(p) ==
    /\ IsDict(p)
    /\ HasKey(p[2], "commitment")
    /\ HasKey(p[2], "encryptedCriticalBytes")
    /\ HasKey(p[2], "proofTimestamp")

\* C10: verify_proof_integrity never raises and returns a boolean, true
\* exactly when the proof hash can be computed and equals the record's
\* proofHash field.
C10_VerifyProofIntegrityTotal ==
    IsCall("verify_proof_integrity") =>
        /\ call.out.exc = ""
        /\ call.out.val \in BOOLEAN
        /\ call.out.val <=>
              /\ HashComputable(call.args.proof)
              /\ HasKey(call.args.proof[2], "proofHash")
              /\ Lookup(call.args.proof[2], "proofHash") =
                    JStr(Sha256Hex(JsonDumps(JDict(HashContent(call.args.proof[2])))))
C10_Witness ==
    /\ IsCall("verify_proof_integrity")
    /\ call.gen.tamper = "no_commitment"
    /\ ~HashComputable(call.args.proof)
    /\ call.out.exc = ""
    /\ call.out.val = FALSE
C10_WitnessTrue ==
    /\ IsCall("verify_proof_integrity")
    /\ call.out.val = TRUE

\* the record as the producer built it, before anything was changed
OriginalProof(g) == JDict(BuildProof(g.version, OwnerKey, ProofFile(g), g.payload))
\* the fields the proof hash of a record covers
CoveredFields(d) ==
    IF DictGet(d, "version", JNum(1)) = JNum(2)
    THEN {"commitment", "groth16Proof", "publicSignals", "encryptedCriticalBytes",
          "proofTimestamp"}
    ELSE {"commitment", "encryptedCriticalBytes", "proofTimestamp"}
\* p is the producer's record with the value of a covered field changed and
\* the producer's proofHash kept
CoveredFieldChanged(g, p) ==
    /\ IsDict(p)
    /\ HashComputable(p)
    /\ DictGet(p[2], "version", None) = DictGet(OriginalProof(g)[2], "version", None)
    /\ HasKey(p[2], "proofHash")
    /\ Lookup(p[2], "proofHash") = Lookup(OriginalProof(g)[2], "proofHash")
    /\ \E f \in CoveredFields(p[2]) :
          /\ HasKey(p[2], f)
          /\ HasKey(OriginalProof(g)[2], f)
          /\ Lookup(p[2], f) # Lookup(OriginalProof(g)[2], f)

\* C11: tamper detection: on a record whose proofHash was correctly
\* computed, changing the value of a hash-covered field (commitment,
\* encryptedCriticalBytes, proofTimestamp, for version 2 also groth16Proof
\* and publicSignals) without recomputing proofHash makes
\* verify_proof_integrity return False and verify_and_decrypt_proof fail with
\* the proof-integrity error.
C11_TamperDetected ==
    /\ (IsCall("verify_proof_integrity") /\ CoveredFieldChanged(call.gen, call.args.proof)) =>
          (call.out.exc = "" /\ call.out.val = FALSE)
    /\ (IsCall("verify_and_decrypt_proof") /\ CoveredFieldChanged(call.gen, call.args.proof)) =>
          /\ call.out.exc = "ValueError"
          /\ call.out.msg = MsgIntegrity
          /\ call.out.val = <<>>
C11_Witness ==
    /\ IsCall("verify_and_decrypt_proof")
    /\ call.gen.version = 2
    /\ call.gen.tamper = "signals_stale"
    /\ call.args.key = OwnerKey
    /\ CoveredFieldChanged(call.gen, call.args.proof)
    /\ call.out.msg = MsgIntegrity
C11_WitnessIntegrity ==
    /\ IsCall("verify_proof_integrity")
    /\ call.gen.tamper = "ecb_stale"
    /\ CoveredFieldChanged(call.gen, call.args.proof)
    /\ call.out.val = FALSE

\* the key order the claim states for a version value
StatedKeys(version) ==
    IF version = 2
    THEN <<"commitment", "groth16Proof", "publicSignals", "encryptedCriticalBytes",
           "proofTimestamp">>
    ELSE <<"commitment", "encryptedCriticalBytes", "proofTimestamp">>
\* the record of the same version and zero-knowledge members as the
\* producer built it
BuiltRecord(g) == GenZk(BuildProof(g.version, OwnerKey, HashFile, "exact"), g.zk)

\* the built record with the proofHash the producer computes over it
BuildProofHashOf(g) == WithProofHash(BuiltRecord(g))

\* C12: the proof hash is the SHA-256 of the serialization of exactly the
\* version-selected members in the fixed order (version 2: commitment,
\* groth16Proof, publicSignals, encryptedCriticalBytes, proofTimestamp; any
\* other or no version: commitment, encryptedCriticalBytes, proofTimestamp),
\* whatever the key order of the record and whatever its members outside the
\* subset hold.
C12_HashCoversOrderedSubset ==
    IsCall("compute_proof_hash") =>
        LET keys_ == StatedKeys(call.gen.version)
            d == call.args.proof[2]
        IN  /\ call.out.exc = ""
            /\ call.out.val =
                  Sha256Hex(JsonDumps(JDict([i \in 1..Len(keys_) |->
                                                <<keys_[i], Lookup(d, keys_[i])>>])))
            /\ call.out.val = ComputeProofHash(JDict(BuiltRecord(call.gen))).val
C12_Witness ==
    /\ IsCall("compute_proof_hash")
    /\ call.gen.version = 2
    /\ call.gen.order = "reversed"
    /\ call.gen.outside = "encryptionIv"
    /\ call.gen.zk = "set"
    /\ call.args.proof[2][1][1] # "version"
    /\ call.out.exc = ""
    /\ call.out.val = Lookup(BuildProofHashOf(call.gen), "proofHash")[2]
C12_WitnessNoVersion ==
    /\ IsCall("compute_proof_hash")
    /\ call.gen.version = 0
    /\ call.gen.outside = "dropped"
    /\ ~HasKey(call.args.proof[2], "version")
    /\ call.out.exc = ""

\* C13: derive_key is deterministic and level-separating: for a level in
\* {1, 2, 3} the key is the 32-byte HKDF output fixed by (signature, level)
\* alone, and the keys of the three levels from one signature are pairwise
\* distinct.
C13_DeriveKeyDeterministic ==
    (IsCall("derive_key") /\ call.args.level \in SecurityLevels) =>
        LET a == call.args
            again == IF sdk = "blockdrive" THEN WalletDeriveKey(a.signature, a.level)
                     ELSE KeyDerivationDeriveKey(a.signature, a.level)
        IN  /\ call.out.exc = ""
            /\ call.out.val = again.val
            /\ call.out.val[1] = "hkdf" /\ call.out.val[2] = a.signature
            /\ KeyLen(call.out.val) = 32
            /\ \A l1, l2 \in SecurityLevels :
                  l1 # l2 =>
                      (IF sdk = "blockdrive" THEN WalletDeriveKey(a.signature, l1).val
                       ELSE KeyDerivationDeriveKey(a.signature, l1).val) #
                      (IF sdk = "blockdrive" THEN WalletDeriveKey(a.signature, l2).val
                       ELSE KeyDerivationDeriveKey(a.signature, l2).val)
            /\ \A l \in SecurityLevels \ {a.level} :
                  call.out.val # (IF sdk = "blockdrive" THEN WalletDeriveKey(a.signature, l).val
                                  ELSE KeyDerivationDeriveKey(a.signature, l).val)
C13_Witness ==
    /\ IsCall("derive_key")
    /\ sdk = "blockdrive"
    /\ call.args.level = 3
    /\ call.out.exc = ""
    /\ call.out.val # WalletDeriveKey(call.args.signature, 2).val

\* C14: derive_key with a level outside {1, 2, 3} fails with an error
\* before any HKDF computation and returns no key, in blockdrive and in
\* blockdrive_recovery.
C14_UnknownLevelRejected ==
    (IsCall("derive_key") /\ call.args.level \notin {1, 2, 3}) =>
        /\ call.out.exc # ""
        /\ call.out.val = <<>>
        /\ ~HasStep("hkdf")
C14_Witness ==
    /\ IsCall("derive_key")
    /\ sdk = "blockdrive"
    /\ call.args.level = 0
    /\ call.out.exc = "KeyError"
C14_WitnessRecovery ==
    /\ IsCall("derive_key")
    /\ sdk = "blockdrive_recovery"
    /\ call.args.level = 4
    /\ call.out.exc = "KeyError"

\* ---- C15
\* the level a recover_file call asked for holds no key in the cache of
\* the package in use
NoKeyForLevel ==
    \/ IsCall("recover_file") /\ crypto[call.args.security_level] = NoKey
    \/ IsCall("blockdrive_recovery.recover_file") /\ decryptors[call.args.security_level] = NoKey
\* a download or a decryption is among the steps of the call
DownloadOrDecryptStep ==
    \E i \in 1..Len(call.out.steps) :
        call.out.steps[i] \in {"download_content", "download_proof", "aesgcm_decrypt_proof",
                               "aesgcm_decrypt_file", "parse_proof_json"}

\* C15: whatever keys were added before, recover_file for a level without a
\* derived key reports the no-key error at once: blockdrive raises
\* ValueError, blockdrive_recovery returns a RecoveryResult with
\* success=false and the no-key message; in both the lookup of the key is
\* the only step, so nothing was downloaded and no key of another level
\* decrypted anything.
C15_NoKeyReportedBeforeDownload ==
    NoKeyForLevel =>
        /\ ~DownloadOrDecryptStep
        /\ IsCall("recover_file") =>
              /\ call.out.exc = "ValueError"
              /\ call.out.msg = "No key derived for security level"
              /\ call.out.steps = <<"get_crypto">>
        /\ IsCall("blockdrive_recovery.recover_file") =>
              /\ call.out.exc = ""
              /\ ~call.out.val.success
              /\ call.out.val.data = <<>>
              /\ call.out.val.error =
                    Text(<<MsgNoKey, ToString(call.args.security_level), MsgCallDerive>>)
              /\ call.out.steps = <<"get_decryptor">>

\* blockdrive_recovery: the file was sealed under the level-1 key, the
\* cache holds exactly that key, and recover_file is asked for level 2
C15_Witness ==
    /\ IsCall("blockdrive_recovery.recover_file")
    /\ call.args.security_level = 2
    /\ decryptors[2] = NoKey
    /\ decryptors[1] = RecOwnerKey("sigA", 1)
    /\ call.gen.proof = "ok" /\ call.gen.content = "ok"
    /\ call.gen.seal_sig = "sigA" /\ call.gen.seal_level = 1
    /\ ~call.out.val.success
\* blockdrive: level 1 holds a key added after construction, level 3 none
C15_WitnessBlockdrive ==
    /\ IsCall("recover_file")
    /\ call.args.security_level = 3
    /\ crypto[3] = NoKey
    /\ crypto[1] # NoKey
    /\ call.gen.content = "ok" /\ call.gen.proof = "r2"
    /\ call.out.exc = "ValueError"

\* ---- C16
\* the stores hold an intact file and proof and no expected hash is given
IntactBlockdrive ==
    /\ call.gen.content = "ok" /\ call.gen.proof \in {"r2", "ipfs_fallback"}
    /\ call.gen.bytes = "dict" /\ call.gen.tamper = "none" /\ call.gen.payload = "exact"
    /\ call.args.expected_hash = None
IntactRecovery ==
    call.gen.proof = "ok" /\ call.gen.content \in {"ok", "second"}
\* the state predicates of C16: what one key addition does to the cache
\* (before: the cache when the call was made), and which key a recovery
\* uses
C16_ReplacesOnlyLevel ==
    /\ IsCall("add_signature") =>
          crypto = IF call.args.level \in SecurityLevels
                   THEN [l \in SecurityLevels |->
                            IF l = call.args.level
                            THEN DeriveKey(call.args.signature, l)
                            ELSE call.args.before[l]]
                   ELSE call.args.before
    /\ IsCall("derive_key_from_signature") =>
          /\ decryptors = IF call.args.level \in SecurityLevels
                          THEN [l \in SecurityLevels |->
                                   IF l = call.args.level
                                   THEN RecOwnerKey(call.args.signature, l)
                                   ELSE call.args.before[l]]
                          ELSE call.args.before
          /\ call.out.val = (call.args.level \in SecurityLevels)
    /\ keys = decryptors
C16_RecoverUsesCurrentKey ==
    /\ (IsCall("recover_file") /\ IntactBlockdrive) =>
          /\ call.args.key = crypto[call.args.security_level]
          /\ (call.out.exc = "" /\ call.out.val.success) <=>
                (crypto[call.args.security_level] = OwnerKey)
    /\ (IsCall("blockdrive_recovery.recover_file") /\ IntactRecovery) =>
          /\ call.args.key = decryptors[call.args.security_level]
          /\ call.out.val.success <=>
                (decryptors[call.args.security_level] =
                    RecOwnerKey(call.gen.seal_sig, call.gen.seal_level))
\* a step that is no key addition leaves every cache as it is
C16_OnlyAdditionsChange ==
    (call'.op \notin {"add_signature", "derive_key_from_signature", "derive_all_keys"}) =>
        UNCHANGED <<crypto, keys, decryptors>>

\* C16: the cache holds one key per level.  add_signature(sig, L) of
\* blockdrive and derive_key_from_signature(sig, L) of blockdrive_recovery
\* set the entry of L to the key of sig and leave every other entry as it
\* was; no later step but another key addition changes an entry, and
\* recover_file at L decrypts with the entry of L, so with the key of the
\* signature supplied last for L: it succeeds on intact stores exactly
\* when that key is the one the file was sealed with.
C16_KeyCacheReplacesOneLevel ==
    /\ [](C16_ReplacesOnlyLevel /\ C16_RecoverUsesCurrentKey)
    /\ [][C16_OnlyAdditionsChange]_vars

\* level 1 held the key of sigA, level 2 a key; sigB was then supplied
\* for level 1 and replaced it
C16_Witness ==
    /\ IsCall("derive_key_from_signature")
    /\ call.args.level = 1 /\ call.args.signature = "sigB"
    /\ call.args.before[1] = RecOwnerKey("sigA", 1)
    /\ call.args.before[2] = RecOwnerKey("sigA", 2)
    /\ decryptors[1] = RecOwnerKey("sigB", 1)
    /\ decryptors[2] = RecOwnerKey("sigA", 2)
\* the same for add_signature of blockdrive
C16_WitnessBlockdrive ==
    /\ IsCall("add_signature")
    /\ call.args.level = 1 /\ call.args.signature = "sigB"
    /\ call.args.before[1] = DeriveKey("sigA", 1)
    /\ call.args.before[3] # NoKey
    /\ crypto[1] = DeriveKey("sigB", 1)
    /\ crypto[3] = call.args.before[3]
\* a file sealed with the key of sigB is recovered at level 1 once sigB
\* is the signature held for level 1
C16_WitnessRecover ==
    /\ IsCall("blockdrive_recovery.recover_file")
    /\ IntactRecovery
    /\ call.gen.seal_sig = "sigB" /\ call.gen.seal_level = 1
    /\ call.args.security_level = 1
    /\ call.out.val.success /\ call.out.val.data = call.gen.plaintext

\* ---- C17
\* the messages a "; "-joined error text is made of
RECURSIVE SplitMessages(_, _)
SplitMessages(text, current) ==
    IF text = <<>> THEN <<current>>
    ELSE IF Head(text) = "; " THEN <<current>> \o SplitMessages(Tail(text), <<>>)
    ELSE SplitMessages(Tail(text), Append(current, Head(text)))
Mentions(message, piece) == \E i \in 1..Len(message) : message[i] = piece
\* the first gateway that answers 200 to responses, 0 when none does
FirstOk(responses) ==
    IF \E i \in 1..Len(Gateways) : responses[i].status = "200"
    THEN CHOOSE i \in 1..Len(Gateways) :
            /\ responses[i].status = "200"
            /\ \A j \in 1..(i - 1) : responses[j].status # "200"
    ELSE 0
\* result is what the claim says the gateway loop gives for responses;
\* asked is the gateways it contacted
GatewayOrderResult(responses, result, asked) ==
    LET k == FirstOk(responses)
        messages == SplitMessages(result.error.text, <<>>)
    IN  IF k # 0
        THEN /\ result.success
             /\ result.data = responses[k].data
             /\ result.provider = Gateways[k]
             /\ asked = SubSeq(Gateways, 1, k)
        ELSE /\ ~result.success
             /\ result.data = <<>>
             /\ result.error.some /\ ~TextEmpty(result.error.text)
             /\ asked = Gateways
             /\ Len(messages) = Len(Gateways)
             /\ \A i \in 1..Len(Gateways) :
                   /\ Mentions(messages[i], Gateways[i])
                   /\ responses[i].status # "" => Mentions(messages[i], responses[i].status)

\* C17: download_ipfs_sync asks the gateways in list order; the first that
\* answers 200 ends the loop and gives success, its body and itself as
\* provider, no later gateway being asked; any other status and a network
\* error both go on to the next gateway; when none answers 200 the result
\* is a failure with empty data and an error text of one message per
\* gateway, in list order.  download_ipfs does the same.
C17_GatewaysInOrder ==
    (IsCall("download_ipfs_sync") \/ IsCall("download_ipfs")) =>
        GatewayOrderResult(call.args.responses, call.out.val, call.out.val.contacted)

\* the first gateway failed with a network error and the last one served
C17_Witness ==
    /\ IsCall("download_ipfs_sync")
    /\ call.args.responses[1] = NetError
    /\ call.args.responses[NumGateways].status = "200"
    /\ call.out.val.success
    /\ call.out.val.provider = Gateways[NumGateways]
\* every gateway failed, one of them with a status and one with an error
C17_WitnessAllFail ==
    /\ IsCall("download_ipfs_sync")
    /\ call.args.responses[1] = HttpStatus("500")
    /\ call.args.responses[NumGateways] = NetError
    /\ ~call.out.val.success
    /\ Len(SplitMessages(call.out.val.error.text, <<>>)) = NumGateways
\* the first gateway served while a later one would have served too
C17_WitnessFirstServes ==
    /\ IsCall("download_ipfs_sync")
    /\ \A i \in 1..NumGateways : call.args.responses[i].status = "200"
    /\ call.args.responses[1].data # call.args.responses[NumGateways].data
    /\ call.out.val.contacted = <<Gateways[1]>>

\* ---- C18
\* the reason a failed R2 request is reported with
R2Reason(r2) == IF r2.status # "" THEN <<"HTTP ", r2.status>> ELSE <<r2.reason>>

\* C18: download_proof_with_fallback_sync and download_proof_with_fallback
\* ask R2 first.  A 200 from R2 is returned as the result and no gateway
\* is asked; otherwise the gateways are asked in order after R2 and their
\* result is returned; when they fail too its error is
\* 'R2: <R2 reason>; IPFS: <IPFS reason>'.
C18_R2ThenIpfs ==
    (IsCall("download_proof_with_fallback_sync") \/ IsCall("download_proof_with_fallback")) =>
        LET r2 == call.args.r2
            result == call.out.val
        IN  /\ result.contacted[1] = "r2"
            /\ r2.status = "200" =>
                  /\ result.contacted = <<"r2">>
                  /\ result.success /\ result.data = r2.data /\ result.provider = "r2"
                  /\ ~result.error.some
            /\ r2.status # "200" =>
                  LET k == FirstOk(call.args.responses)
                      asked == Tail(result.contacted)
                      ipfs_reason == JoinErrors(
                          [i \in 1..Len(Gateways) |->
                              IF call.args.responses[i].status # ""
                              THEN <<"HTTP ", call.args.responses[i].status, " from ",
                                     Gateways[i]>>
                              ELSE <<Gateways[i], ": ", call.args.responses[i].reason>>])
                  IN  /\ asked = IF k # 0 THEN SubSeq(Gateways, 1, k) ELSE Gateways
                      /\ result.success = (k # 0)
                      /\ k # 0 => /\ result.data = call.args.responses[k].data
                                  /\ result.provider = Gateways[k]
                      /\ k = 0 => result.error =
                                     Text(<<"R2: ">> \o R2Reason(r2) \o <<"; IPFS: ">> \o
                                          ipfs_reason)

\* R2 served while a gateway would have served something else
C18_Witness ==
    /\ IsCall("download_proof_with_fallback_sync")
    /\ call.args.r2.status = "200"
    /\ call.args.responses[1].status = "200"
    /\ call.args.responses[1].data # call.args.r2.data
    /\ call.out.val.data = call.args.r2.data
    /\ call.out.val.contacted = <<"r2">>
\* R2 and every gateway failed
C18_WitnessBothFail ==
    /\ IsCall("download_proof_with_fallback_sync")
    /\ call.args.r2 = HttpStatus("404")
    /\ \A i \in 1..NumGateways : call.args.responses[i] = NetError
    /\ ~call.out.val.success
    /\ call.out.val.error.text[1] = "R2: "
\* R2 failed and a gateway served, through the async method
C18_WitnessAsyncFallback ==
    /\ IsCall("download_proof_with_fallback")
    /\ call.args.r2 = Timeout
    /\ call.args.responses[1].status = "200"
    /\ call.out.val.success
    /\ call.out.val.contacted = <<"r2", Gateways[1]>>

\* ---- C20
\* the raw security-level byte of account data, -1 when the data ends
\* before it
RawLevelOf(package, data) ==
    IF HasByteAt(data, LayoutOf(package), "security_level")
    THEN ByteInt(data[OffsetOf(LayoutOf(package), "security_level") + 1])
    ELSE -1
\* the records of fetch_all_file_records are those of the accounts that
\* deserialize, in order
RECURSIVE LevelsKept(_)
LevelsKept(accounts) ==
    IF accounts = <<>> THEN <<>>
    ELSE (IF Len(Head(accounts)) = Len(GenAccountFull("blockdrive", [raw |-> 0, size |-> 0], <<>>))
             /\ RawLevelOf("blockdrive", Head(accounts)) \in {0, 1, 2}
          THEN <<RawLevelOf("blockdrive", Head(accounts)) + 1>> ELSE <<>>)
         \o LevelsKept(Tail(accounts))

\* C20: in both packages a record's security level is the raw on-chain
\* byte plus one, so raw 0, 1, 2 give levels 1, 2, 3; with any other raw
\* byte deserialization raises and gives no record, fetch_file_record gives
\* none either, and fetch_all_file_records leaves that account out.
C20_LevelIsRawPlusOne ==
    /\ IsCall("deserialize") =>
          LET raw == RawLevelOf(sdk, call.args.data)
          IN  /\ call.out.exc = "" =>
                    /\ raw \in {0, 1, 2}
                    /\ call.out.val.security_level = raw + 1
                    /\ call.out.val.security_level \in SecurityLevels
              /\ (raw \notin {0, 1, 2}) => call.out.exc # ""
              /\ (raw \in {0, 1, 2} /\ call.gen.cut = "full") => call.out.exc = ""
              /\ (raw \notin {-1, 0, 1, 2}) =>
                    (call.gen.cut = "full" => call.out.exc = "ValueError")
    /\ IsCall("fetch_file_record") =>
          LET raw == RawLevelOf(sdk, call.args.resp.value)
          IN  (call.out.exc = "" /\ call.out.val.some) =>
                  /\ raw \in {0, 1, 2}
                  /\ call.out.val.record.security_level = raw + 1
    /\ IsCall("fetch_all_file_records") =>
          (call.out.exc = "" =>
              /\ Len(call.out.val) = Len(LevelsKept(call.args.resp.value))
              /\ \A i \in 1..Len(call.out.val) :
                    call.out.val[i].security_level = LevelsKept(call.args.resp.value)[i])

\* a complete blockdrive account of raw level 2 gives a record of level 3
C20_Witness ==
    /\ IsCall("deserialize") /\ sdk = "blockdrive"
    /\ call.gen.raw = 2 /\ call.gen.cut = "full"
    /\ call.out.exc = "" /\ call.out.val.security_level = 3
\* a complete blockdrive_recovery account of raw level 3 gives no record
C20_WitnessOutOfRange ==
    /\ IsCall("deserialize") /\ sdk = "blockdrive_recovery"
    /\ call.gen.raw = 3 /\ call.gen.cut = "full"
    /\ call.out.exc = "ValueError"
\* fetch_all_file_records left out an account of raw level 255 and kept
\* the one after it
C20_WitnessSkipped ==
    /\ IsCall("fetch_all_file_records")
    /\ Len(call.gen) = MaxAccounts
    /\ call.gen[1].raw = 255 /\ call.gen[1].cut = "full"
    /\ call.gen[MaxAccounts].raw = 0 /\ call.gen[MaxAccounts].cut = "full"
    /\ Len(call.out.val) < MaxAccounts
    /\ call.out.val[Len(call.out.val)].security_level = 1

\* C19: a run of the command line exits with code 0 only when recovery
\* succeeded and the output file holds the recovered bytes; whenever no
\* RecoveryResult was obtained (the signature could not be read or decoded,
\* it was empty, the key could not be derived, --verify-onchain came without
\* --vault-owner or --file-id) or the RecoveryResult has success = False, the
\* run prints the reason, exits with code 1 and leaves the output path as it
\* was before the run.
IsMain == call.op = "main"
MainFailed ==
    \/ ~call.out.val.result.some
    \/ ~call.out.val.result.result.success
MainReason ==
    CASE call.gen.input = "bad" /\ call.gen.source = "signature" -> "Error reading signature file: "
      [] call.gen.input = "bad" /\ call.gen.source = "sig_hex" -> "Invalid hex signature: "
      [] call.gen.input = "bad" /\ call.gen.source = "sig_base64" -> "Invalid base64 signature: "
      [] call.gen.input = "bad" -> "Traceback"
      [] call.gen.input = "empty" -> "No signature provided"
      [] call.gen.verify_onchain /\ ~(call.gen.vault_owner /\ call.gen.file_id) ->
            "Error: --verify-onchain requires --vault-owner and --file-id"
      [] OTHER -> "Recovery failed: "
C19_ExitCodeAndOutput ==
    IsMain =>
        /\ call.out.val.exit_code \in {0, 1}
        /\ call.out.val.exit_code = 0 =>
              /\ call.out.val.result.some
              /\ call.out.val.result.result.success
              /\ outfile = File(call.out.val.result.result.data)
              /\ outfile = File(CliRecGen(call.gen).plaintext)
        /\ MainFailed =>
              /\ call.out.val.exit_code = 1
              /\ call.out.val.printed # <<>>
              /\ call.out.val.printed[1] = MainReason
              /\ outfile = call.args.existing
\* a failed recovery leaves the file of an earlier run untouched
C19_Witness ==
    /\ IsMain
    /\ call.out.val.result.some
    /\ ~call.out.val.result.result.success
    /\ call.out.val.exit_code = 1
    /\ call.args.existing = OldFile
    /\ outfile = OldFile
\* a successful run replaces the file of an earlier run
C19_WitnessSuccess ==
    /\ IsMain
    /\ call.out.val.exit_code = 0
    /\ call.args.existing = OldFile
    /\ outfile = File(LongPlain)
\* --verify-onchain without the owner or the file id creates nothing
C19_WitnessMissingOption ==
    /\ IsMain
    /\ call.gen.verify_onchain
    /\ ~call.gen.vault_owner
    /\ call.out.val.exit_code = 1
    /\ call.args.existing = NoFile
    /\ outfile = NoFile
\* the chain holds another commitment: nothing is written
C19_WitnessOnChainMismatch ==
    /\ IsMain
    /\ call.gen.chain = "mismatch"
    /\ call.out.val.exit_code = 1
    /\ outfile = call.args.existing
\* a malformed signature ends the run before anything is derived
C19_WitnessMalformed ==
    /\ IsMain
    /\ call.gen.source = "sig_hex"
    /\ call.gen.input = "bad"
    /\ call.out.val.exit_code = 1
    /\ outfile = call.args.existing
\* the summary fails after the write: exit code 1 with the file in place
C19_WitnessSummaryFails ==
    /\ IsMain
    /\ call.gen.metadata = "size_text"
    /\ call.out.val.exit_code = 1
    /\ outfile = File(LongPlain)
    /\ call.args.existing = NoFile


\* ---- C21
\* the proof the store served carries a proof hash that does not match its
\* hash-covered fields
ServedProofHashBroken ==
    /\ IsCall("blockdrive_recovery.recover_file")
    /\ call.gen.proof \in {"hash_ok", "hash_stale"}
    /\ ~VerifyProofIntegrity(JDict(RecGenProof(call.gen))).val
DecryptCriticalBytesStep ==
    \E i \in 1..Len(call.out.steps) :
        call.out.steps[i] \in {"b64decode_encrypted_data", "b64decode_iv", "aesgcm_decrypt_proof"}
\* C21: blockdrive_recovery's recover_file rejects a downloaded proof whose
\* hash-covered fields do not match its proof hash before
\* decrypt_critical_bytes is called.
C21_ProofHashGate ==
    ServedProofHashBroken =>
        /\ ~DecryptCriticalBytesStep
        /\ ~call.out.val.success


\* ---- C22
\* the record has every field verify_and_decrypt_proof reads and its two
\* base64 fields decode
ChecksApply ==
    /\ IsCall("verify_and_decrypt_proof")
    /\ call.gen.tamper \notin {"no_proofHash", "no_commitment", "no_encryptedCriticalBytes",
                               "no_proofTimestamp", "no_encryptionIv", "ecb_not_base64",
                               "ecb_null", "iv_not_base64"}
\* which of the four checks cannot pass on the call's inputs
HashCheckFails == ProofHashDiffers(call.args.proof)
PayloadDecryptionFails ==
    call.args.key # OwnerKey \/ ~SealIntact(call.gen, call.args.proof)
LengthCheckFails ==
    Len(SealedPayload(ProofFile(call.gen), call.gen.payload)) <
        CRITICAL_BYTES_LENGTH + FILE_IV_LENGTH
CommitmentCheckFails ==
    Lookup(call.args.proof[2], "commitment") #
        JStr(Sha256Hex(PySlice(SealedPayload(ProofFile(call.gen), call.gen.payload),
                               0, CRITICAL_BYTES_LENGTH)))
FirstFailure ==
    CASE HashCheckFails -> MsgIntegrity
      [] PayloadDecryptionFails -> MsgDecryptProof
      [] LengthCheckFails -> MsgTooShort
      [] CommitmentCheckFails -> MsgCommitmentMismatch
      [] OTHER -> ""
\* the steps a call has taken when it reports each of the four errors
StepsUpTo(msg) ==
    CASE msg = MsgIntegrity -> <<"compute_proof_hash", "proof_hash_check">>
      [] msg = MsgDecryptProof ->
            <<"compute_proof_hash", "proof_hash_check", "b64decode_encryptedCriticalBytes",
              "b64decode_encryptionIv", "aesgcm_decrypt_proof">>
      [] msg = MsgTooShort ->
            <<"compute_proof_hash", "proof_hash_check", "b64decode_encryptedCriticalBytes",
              "b64decode_encryptionIv", "aesgcm_decrypt_proof", "length_check">>
      [] OTHER ->
            <<"compute_proof_hash", "proof_hash_check", "b64decode_encryptedCriticalBytes",
              "b64decode_encryptionIv", "aesgcm_decrypt_proof", "length_check",
              "commitment_check">>
\* C22: the four checks of verify_and_decrypt_proof run in the order proof
\* hash, payload decryption, payload length (>= 28), commitment; the error
\* reported is that of the first check that fails, whatever later checks
\* would fail too; a payload that authenticates but is shorter than 28 bytes
\* fails with the length error and never with the commitment mismatch; the
\* four errors are pairwise distinct.
C22_ChecksInOrder ==
    /\ Cardinality({MsgIntegrity, MsgDecryptProof, MsgTooShort, MsgCommitmentMismatch}) = 4
    /\ ChecksApply =>
          /\ call.out.msg = FirstFailure
          /\ call.out.steps = StepsUpTo(FirstFailure)
          /\ FirstFailure # "" => (call.out.exc = "ValueError" /\ call.out.val = <<>>)
          /\ FirstFailure = "" => call.out.exc = ""
          /\ (~HashCheckFails /\ ~PayloadDecryptionFails /\ LengthCheckFails) =>
                (call.out.msg = MsgTooShort /\ call.out.msg # MsgCommitmentMismatch)
\* a 20-byte payload that authenticates, under a commitment that does not
\* match either: the length error is the one reported
C22_Witness ==
    /\ ChecksApply
    /\ ~HashCheckFails
    /\ ~PayloadDecryptionFails
    /\ LengthCheckFails
    /\ CommitmentCheckFails
    /\ Len(SealedPayload(ProofFile(call.gen), call.gen.payload)) = ShortPayloadLen
    /\ call.out.msg = MsgTooShort
\* all four checks would fail: the proof hash error is reported
C22_WitnessAllFail ==
    /\ ChecksApply
    /\ HashCheckFails /\ PayloadDecryptionFails /\ LengthCheckFails /\ CommitmentCheckFails
    /\ call.out.msg = MsgIntegrity
\* only the commitment fails
C22_WitnessCommitment ==
    /\ ChecksApply
    /\ FirstFailure = MsgCommitmentMismatch
    /\ call.gen.tamper = "commitment_other"
    /\ call.out.msg = MsgCommitmentMismatch
\* wrong key on a short payload: the decryption error
C22_WitnessDecryption ==
    /\ ChecksApply
    /\ ~HashCheckFails /\ LengthCheckFails
    /\ call.args.key # OwnerKey
    /\ call.out.msg = MsgDecryptProof


\* ---- C23
\* one of the two base64 fields of the record does not decode
Base64FieldBroken ==
    \/ B64Decode(Lookup(call.args.proof[2], "encryptedCriticalBytes")).exc # ""
    \/ B64Decode(Lookup(call.args.proof[2], "encryptionIv")).exc # ""
\* C23: in verify_and_decrypt_proof, the proof hash valid, every failure to
\* base64-decode encryptedCriticalBytes or encryptionIv and every AES-GCM
\* authentication failure is reported as the same 'Failed to decrypt proof'
\* error, and no payload is returned.
C23_DecodeFailuresAsDecryptError ==
    (/\ IsCall("verify_and_decrypt_proof")
     /\ ProofHashValid(call.args.proof)
     /\ HasKey(call.args.proof[2], "encryptedCriticalBytes")
     /\ HasKey(call.args.proof[2], "encryptionIv")
     /\ (Base64FieldBroken \/ PayloadDecryptionFails)) =>
        /\ call.out.exc = "ValueError"
        /\ call.out.msg = MsgDecryptProof
        /\ call.out.val = <<>>


\* ---- C24
\* the serialization of a version-2 record's covered members, an absent
\* member m encoded as absentAs[m]
SerializedWith(d, absentAs) ==
    LET keys_ == StatedKeys(2)
    IN  JsonDumps(JDict([i \in 1..Len(keys_) |->
            <<keys_[i], IF HasKey(d, keys_[i]) THEN Lookup(d, keys_[i])
                        ELSE absentAs[keys_[i]]>>]))
PartialV2 == IsCall("compute_proof_hash_partial") /\ call.gen.version = 2
\* the claim as stated: for a version-2 record from which groth16Proof or
\* publicSignals is absent, the serialization hashed by _compute_proof_hash
\* encodes the absent value as the JSON null literal.
C24_AbsentEncodedAsNull ==
    PartialV2 =>
        /\ call.out.exc = ""
        /\ call.out.val =
              Sha256Hex(SerializedWith(call.args.proof[2],
                                       [k \in {"groth16Proof", "publicSignals"} |-> None]))
\* C24 (amended): for a version-2 record the serialization hashed by
\* _compute_proof_hash encodes an absent groth16Proof as the JSON null
\* literal and an absent publicSignals as the empty array [].
C24_AbsentGroth16NullSignalsEmpty ==
    PartialV2 =>
        /\ call.out.exc = ""
        /\ call.out.val =
              Sha256Hex(SerializedWith(call.args.proof[2],
                                       [k \in {"groth16Proof", "publicSignals"} |->
                                           IF k = "groth16Proof" THEN None ELSE JList(<<>>)]))
\* both members absent: null and [] are what is hashed
C24_Witness ==
    /\ PartialV2
    /\ ~HasKey(call.args.proof[2], "groth16Proof")
    /\ ~HasKey(call.args.proof[2], "publicSignals")
    /\ call.out.exc = ""
    /\ call.out.val[2][1][2][2][2] = <<"groth16Proof", None>>
    /\ call.out.val[2][1][2][2][3] = <<"publicSignals", JList(<<>>)>>
\* only groth16Proof absent, publicSignals populated
C24_WitnessGroth16 ==
    /\ PartialV2
    /\ call.gen.absent = <<"groth16Proof">>
    /\ call.gen.zk = "set"
    /\ call.out.val[2][1][2][2][2] = <<"groth16Proof", None>>
    /\ call.out.val[2][1][2][2][3] = <<"publicSignals", JList(<<JStr(Lit("signal1"))>>)>>


\* ---- C25
\* the places of a step among the steps of the call
Positions(step) == {i \in 1..Len(call.out.steps) : call.out.steps[i] = step}
\* every place of step a is before every place of step b
Before(a, b) == \A i \in Positions(a), j \in Positions(b) : i < j
ProofSteps ==
    {"parse_proof_json", "compute_proof_hash", "proof_hash_check",
     "b64decode_encryptedCriticalBytes", "b64decode_encryptionIv", "aesgcm_decrypt_proof",
     "length_check"}
FileSteps == {"reconstruct", "aesgcm_decrypt_file", "content_hash_check"}
RecoverWithKey == IsCall("recover_file") /\ call.args.key # NoKey
ContentUnavailable == \A i \in 1..NumGateways : call.args.env.content[i].status # "200"
ProofUnavailable ==
    /\ call.args.env.r2.status # "200"
    /\ \A i \in 1..NumGateways : call.args.env.proof_ipfs[i].status # "200"
\* C25: blockdrive's synchronous recover_file runs content download, proof
\* download, proof verification and extraction, file decryption in this
\* order, each stage at most once; a failed content download is reported as
\* 'Failed to download content' and the proof is never requested; a failed
\* proof download is reported as 'Failed to download proof' and nothing is
\* decrypted; once a verification or decryption step has run no download
\* follows.
C25_StagesInOrderNoRetry ==
    RecoverWithKey =>
        /\ Cardinality(Positions("download_content")) = 1
        /\ Cardinality(Positions("download_proof")) <= 1
        /\ \A s \in ProofSteps \cup FileSteps : Cardinality(Positions(s)) <= 1
        /\ Before("download_content", "download_proof")
        /\ \A s \in ProofSteps \cup FileSteps :
              Before("download_content", s) /\ Before("download_proof", s)
        /\ \A s \in ProofSteps, f \in FileSteps : Before(s, f)
        /\ (Positions("parse_proof_json") # {}) =>
              Cardinality(Positions("download_proof")) = 1
        /\ ContentUnavailable =>
              /\ call.out.exc = ""
              /\ ~call.out.val.success
              /\ call.out.val.error.text[1] = "Failed to download content: "
              /\ call.out.steps = <<"get_crypto", "download_content">>
        /\ (~ContentUnavailable /\ ProofUnavailable) =>
              /\ call.out.exc = ""
              /\ ~call.out.val.success
              /\ call.out.val.error.text[1] = "Failed to download proof: "
              /\ call.out.steps = <<"get_crypto", "download_content", "download_proof">>
\* content and proof both unavailable: only the content was requested
C25_Witness ==
    /\ RecoverWithKey
    /\ ContentUnavailable
    /\ ProofUnavailable
    /\ call.out.steps = <<"get_crypto", "download_content">>
\* the proof download fails after the content arrived
C25_WitnessProofFails ==
    /\ RecoverWithKey
    /\ ~ContentUnavailable
    /\ ProofUnavailable
    /\ call.out.val.error.text[1] = "Failed to download proof: "
\* an integrity failure ends the call after one download of each
C25_WitnessIntegrityFails ==
    /\ RecoverWithKey
    /\ call.gen.tamper = "hash_wrong"
    /\ call.out.exc = ""
    /\ call.out.val.error.text = <<MsgIntegrity>>
    /\ call.out.steps[Len(call.out.steps)] = "proof_hash_check"
    /\ Cardinality(Positions("download_content")) = 1
    /\ Cardinality(Positions("download_proof")) = 1
\* all four stages ran
C25_WitnessAllStages ==
    /\ RecoverWithKey
    /\ call.out.exc = ""
    /\ call.out.val.success
    /\ Positions("aesgcm_decrypt_file") # {}


\* ---- C26
IsVerifiedRecovery == IsCall("recover_with_verification")
\* the first proof download succeeds, the Solana packages are there, the
\* verifier is built and its RPC call answers
VerifierAnswers ==
    /\ call.gen.base # "proof_500"
    /\ call.gen.verifier = "ok"
FileNotFoundOnChain == VerifierAnswers /\ call.gen.account = "missing"
OnChainCommitmentDiffers ==
    /\ VerifierAnswers
    /\ call.gen.account \in {"match", "mismatch"}
    /\ (call.gen.account = "mismatch" \/ call.gen.base = "commitment_other")
RecoverFileSteps ==
    {"get_decryptor", "download_content", "b64decode_encrypted_data", "b64decode_iv",
     "aesgcm_decrypt_proof"}
\* C26: recover_with_verification verifies the proof's commitment on-chain
\* before the encrypted content is downloaded and before anything is
\* decrypted; when Solana support is available and the verification result
\* is not verified (file not found on-chain, or commitment mismatch) the
\* result has success=false and recover_file is not invoked.
C26_VerifiedBeforeRecovery ==
    IsVerifiedRecovery =>
        /\ \A s \in RecoverFileSteps : Before("verify_on_chain", s)
        /\ (call.gen.base # "proof_500" /\ call.gen.verifier # "unavailable") =>
              /\ Positions("verify_on_chain") = {2}
              /\ call.out.steps[1] = "download_proof"
        /\ (FileNotFoundOnChain \/ OnChainCommitmentDiffers) =>
              /\ call.out.exc = ""
              /\ ~call.out.val.success
              /\ call.out.val.data = <<>>
              /\ call.out.val.error.text =
                    IF FileNotFoundOnChain THEN <<"File not found on-chain">>
                    ELSE <<"Commitment mismatch - file may be tampered">>
              /\ call.out.steps = <<"download_proof", "verify_on_chain">>
\* the chain holds another commitment and the instance has the key that
\* would decrypt the file
C26_Witness ==
    /\ IsVerifiedRecovery
    /\ call.gen.account = "mismatch"
    /\ call.gen.base = "ok" /\ call.gen.again = "same"
    /\ call.gen.verifier = "ok"
    /\ call.args.key = RecOwnerKey("sigA", 1)
    /\ ~call.out.val.success
\* no record on chain
C26_WitnessNotFound ==
    /\ IsVerifiedRecovery
    /\ FileNotFoundOnChain
    /\ call.args.key = RecOwnerKey("sigA", 1)
    /\ call.out.val.error.text = <<"File not found on-chain">>
\* the verification passes and recover_file runs after it
C26_WitnessVerified ==
    /\ IsVerifiedRecovery
    /\ call.gen.verifier = "ok" /\ call.gen.account = "match"
    /\ call.out.val.success
    /\ call.out.steps[2] = "verify_on_chain"
    /\ call.out.steps[3] = "get_decryptor"

\* ---- C29
\* the commitment the chain stores for (vault_owner, file_id)
OnChainCommitment ==
    IF call.gen.account = "mismatch" THEN JStr(Sha256Hex(ChainCritical))
    ELSE JStr(VerifiedFile.commitment)
\* the commitment of the proof recover_file decrypted with
DecryptionCommitment == R2DownloadProof(call.args.store.r2_again).proof.commitment
\* C29: whenever recover_with_verification returns success=true with Solana
\* support available, the commitment the critical bytes were checked
\* against during decryption equals the commitment stored on-chain for
\* (vault_owner, file_id), whatever the proof store answers at the second
\* download and whether or not the verifier raises.
C29_SuccessMeansOnChainCommitment ==
    (/\ IsVerifiedRecovery
     /\ call.gen.verifier # "unavailable"
     /\ call.out.exc = ""
     /\ call.out.val.success) =>
        /\ call.gen.account # "missing"
        /\ DecryptionCommitment = OnChainCommitment

\* ---- C27
AsyncReturned == call.op = "recover_file_async" /\ call.args.returned
\* what the synchronous recover_file returns for the key, endpoints and
\* expected hash of the call
SyncOutcome == RecoverFile(call.args.key, call.args.env, call.args.expected_hash)
SameOutcome(a, b) ==
    /\ a.exc = b.exc
    /\ a.msg = b.msg
    /\ a.exc = "" => a.val = b.val
BothDownloadsFailed ==
    /\ ~DownloadIpfsSync(call.args.env.content).success
    /\ ~DownloadProofWithFallbackSync(call.args.env.r2, call.args.env.proof_ipfs).success
GatherOrder == SelectSeq(call.out.steps, LAMBDA x : x \in {"download_content", "download_proof"})
\* C27: a returned recover_file_async has the RecoveryResult (or exception)
\* that the synchronous recover_file produces for the same endpoints' answers,
\* in whichever order the two download tasks returned; the two tasks' results
\* are those of the synchronous downloads; and when both downloads failed the
\* error reported is the content download's
C27_AsyncSameAsSync ==
    AsyncReturned =>
        /\ SameOutcome(call.out, SyncOutcome)
        /\ call.args.key # NoKey =>
              /\ call.args.content.result = DownloadIpfsSync(call.args.env.content)
              /\ call.args.proof.result =
                    DownloadProofWithFallbackSync(call.args.env.r2, call.args.env.proof_ipfs)
              /\ BothDownloadsFailed =>
                    /\ call.out.exc = ""
                    /\ ~call.out.val.success
                    /\ call.out.val.error.text =
                          <<"Failed to download content: ">> \o
                          DownloadIpfsSync(call.args.env.content).error.text
\* both downloads failed and the proof task returned first
C27_Witness ==
    /\ AsyncReturned
    /\ call.args.key # NoKey
    /\ BothDownloadsFailed
    /\ GatherOrder = <<"download_proof", "download_content">>
\* a successful recovery with the proof task returning first
C27_WitnessSuccess ==
    /\ AsyncReturned
    /\ call.out.exc = ""
    /\ call.out.val.success
    /\ GatherOrder = <<"download_proof", "download_content">>
\* only the proof download failed, content task first
C27_WitnessProofFails ==
    /\ AsyncReturned
    /\ call.args.key # NoKey
    /\ DownloadIpfsSync(call.args.env.content).success
    /\ ~call.args.proof.result.success
    /\ GatherOrder = <<"download_content", "download_proof">>

\* ---- C28
RequestDone(r) == InRequest(r, "done")
DifferentSignatures == call.gen.signatures[1] # call.gen.signatures[2]
\* C28: of two interleaved requests with different signatures for one level,
\* the recover_file of each decrypts with the key derived from its own
\* signature
C28_RequestsIndependent ==
    \A r \in Requests :
        (RequestDone(r) /\ DifferentSignatures) =>
            call.args[r].decryptor = RecOwnerKey(call.args[r].signature, call.args[r].level)

\* ---- C30
\* a recover_all_files call with Solana available, owner_pubkey set and the
\* records fetched
IsBatch ==
    /\ call.op = "recover_all_files"
    /\ call.gen.available
    /\ call.gen.owner
    /\ ~call.gen.rpc_error
RecordFails(kind) == kind \notin {"ok", "ok_named"}
BatchIndexes == 1..Len(call.args.records)
FileNameOf(i) ==
    IF call.gen.kinds[i] = "ok_named" THEN JStr(Lit("report.pdf"))
    ELSE DefaultFileName(call.args.records[i])
\* C30: recover_all_files returns one RecoveryResult per fetched record, in
\* record order (the i-th is what recover_file_record gives for the i-th
\* record); a record whose recovery fails (missing key, download failure,
\* malformed metadata, integrity failure, AES-GCM authentication failure) has
\* a success=false entry and the other records are still processed; the
\* output directory gets a file only for entries with success=true
C30_OneResultPerRecord ==
    IsBatch =>
        /\ call.out.exc = ""
        /\ Len(call.out.val) = Len(call.args.records)
        /\ \A i \in BatchIndexes :
              /\ call.out.val[i].success = ~RecordFails(call.gen.kinds[i])
              /\ call.out.val[i].success => HasKey(outfile, FileNameOf(i))
        /\ (\A i \in BatchIndexes : ~call.out.val[i].success) => outfile = call.args.dir
====
